---------------------------- MODULE Spec2Model ----------------------------
(***************************************************************************)
(* Model of the message-ingestion and real-time routing pipeline of        *)
(* plural_chat: proxy-tag resolution (web parse_proxy_tags and desktop     *)
(* ProxyDetector), the ConnectionManager registry, the Socket.IO           *)
(* send_message handler and the HTTP send_message endpoint with its        *)
(* broadcast_to_all background task.                                       *)
(*                                                                         *)
(* Text is a sequence of one-character strings.                            *)
(***************************************************************************)
EXTENDS Integers, Sequences, FiniteSets, TLC

VARIABLES
    rText,      \* resolver harness: the text handed to the matchers
    rMembers,   \* resolver harness: the member list handed to the matchers
    rWeb,       \* resolver harness: result of parse_proxy_tags, <<member_id, content>>
    rDesk,      \* resolver harness: result of ProxyDetector.detect_proxy
    rPc,        \* resolver harness: which matchers have run
    active_connections, \* ConnectionManager.active_connections: the dict as its
                        \* item sequence [user_id, sids] in insertion order
    regTrace,   \* registry harness: the calls made so far
    sidState,   \* per Socket.IO sid: "new", "open" or "closed"
    session,    \* sio_app.session(sid)['user_id'], None when unset
    messages,   \* the messages table, in commit order
    inbox,      \* per sid: the events the client has received, in order
    tasks,      \* the handlers started so far, in the order they began
    commands,   \* CommandRegistry.commands: the dict as its item sequence
                \* [key, cmd] in insertion order; cmd is the Command object,
                \* named by the position of its registration
    cmdPc,      \* how many of the module's registrations have run
    cmdOut,     \* command harness: the last call and what it returned
    mContent,   \* mention harness: the content that is scanned
    mAis,       \* mention harness: the account's AI characters, in query order
    mOut,       \* mention harness: whether the scan ran and whom it found
    dMembers,   \* desktop: the members table of the system database
    dPatterns,  \* desktop: ProxyDetector._proxy_patterns, the dict as its item
                \* sequence in insertion order
    dOut,       \* desktop: the last text detect_proxy was called with and
                \* what it returned
    hRows,      \* history harness: the rows of the messages table, in commit
                \* order, by owning account and timestamp
    hOut        \* history harness: the window that was fetched and what the
                \* providers make of it

rvars == <<rText, rMembers, rWeb, rDesk, rPc>>

regvars == <<active_connections, regTrace>>

routervars == <<sidState, session, messages, inbox, tasks>>

cvars == <<commands, cmdPc, cmdOut>>

mvars == <<mContent, mAis, mOut>>

dvars == <<dMembers, dPatterns, dOut>>

hvars == <<hRows, hOut>>

vars == <<rvars, regvars, routervars, cvars, mvars, dvars, hvars>>

(***************************************************************************)
(* Bounds of the resolver harness.                                         *)
(***************************************************************************)
MaxLen == 3         \* longest text handed to the matchers
MaxMembers == 2     \* longest member list
MaxCalls == 4       \* registry harness: number of connect/disconnect calls
MaxEvents == 2      \* Spec: number of inbound events and broadcasts started
MaxIngest == 1      \* SpecIngest: number of inbound events
MaxReply == 1       \* SpecReply: number of inbound events
MaxMention == 4     \* mention harness: longest content that is scanned
MaxAsync == 2       \* SpecAsync: inbound events that overlap
MaxLocal == 1       \* SpecLocal: number of inbound events
MaxHistory == 12    \* history harness: rows of the messages table
MaxTies == 1        \* history harness: pairs of rows with one timestamp
MaxOther == 1       \* history harness: rows of another account

\* Python's None for a member id (member ids are positive integers).
None == 0

\* Characters texts are built from; " " is the only whitespace among them.
Chars == {"[", "]", "a", " "}

Whitespace == {" "}

RECURSIVE TextsUpTo(_)
TextsUpTo(n) ==
    IF n = 0 THEN {<<>>}
    ELSE LET shorter == TextsUpTo(n - 1)
         IN shorter \cup {Append(t, c) : t \in {s \in shorter : Len(s) = n - 1}, c \in Chars}

(***************************************************************************)
(* Python string operations used by the code.                              *)
(***************************************************************************)
startswith(s, p) == Len(p) <= Len(s) /\ SubSeq(s, 1, Len(p)) = p

endswith(s, p) == Len(p) <= Len(s) /\ SubSeq(s, Len(s) - Len(p) + 1, Len(s)) = p

\* s[start:stop] with Python's index normalisation (negative indexes count
\* from the end, everything is clamped to 0..len(s)).
PyIndex(s, i) ==
    LET n == Len(s)
        j == IF i < 0 THEN i + n ELSE i
    IN IF j < 0 THEN 0 ELSE IF j > n THEN n ELSE j

PySlice(s, start, stop) ==
    LET a == PyIndex(s, start)
        b == PyIndex(s, stop)
    IN IF a < b THEN SubSeq(s, a + 1, b) ELSE <<>>

RECURSIVE lstrip(_)
lstrip(s) == IF s # <<>> /\ Head(s) \in Whitespace THEN lstrip(Tail(s)) ELSE s

RECURSIVE rstrip(_)
rstrip(s) ==
    IF s # <<>> /\ s[Len(s)] \in Whitespace THEN rstrip(SubSeq(s, 1, Len(s) - 1)) ELSE s

strip(s) == rstrip(lstrip(s))

(***************************************************************************)
(* Web matcher: parse_proxy_tags(content, members).                        *)
(* A member is [id, proxy_tags]; proxy_tags is the parsed JSON list of     *)
(* [prefix, suffix] records.  A null, empty, malformed or non-list column  *)
(* makes the code skip the member, exactly as the empty list does, so all  *)
(* of them are the empty sequence here.                                    *)
(***************************************************************************)

\* A matcher that leaves the whitespace around the content in place.
TagOutcome_Untrimmed(content, tag) ==
    LET prefix == tag.prefix
        suffix == tag.suffix
    IN IF (prefix # <<>> \/ suffix # <<>>)
          /\ startswith(content, prefix) /\ endswith(content, suffix)
       THEN [matches |-> TRUE,
             stripped_content |->
                 PySlice(content, Len(prefix), Len(content) - Len(suffix))]
       ELSE [matches |-> FALSE, stripped_content |-> content]

\* Lines 55-72: the (matches, stripped_content) pair for one tag entry.
TagOutcome(content, tag) ==
    LET prefix == tag.prefix
        suffix == tag.suffix
    IN IF prefix # <<>> /\ suffix # <<>>
       THEN IF startswith(content, prefix) /\ endswith(content, suffix)
            THEN [matches |-> TRUE,
                  stripped_content |-> strip(PySlice(content, Len(prefix), -Len(suffix)))]
            ELSE [matches |-> FALSE, stripped_content |-> content]
       ELSE IF prefix # <<>>
       THEN IF startswith(content, prefix)
            THEN [matches |-> TRUE,
                  stripped_content |-> strip(PySlice(content, Len(prefix), Len(content)))]
            ELSE [matches |-> FALSE, stripped_content |-> content]
       ELSE IF suffix # <<>>
       THEN IF endswith(content, suffix)
            THEN [matches |-> TRUE,
                  stripped_content |-> strip(PySlice(content, 0, -Len(suffix)))]
            ELSE [matches |-> FALSE, stripped_content |-> content]
       ELSE [matches |-> FALSE, stripped_content |-> content]

\* Lines 43-76: the inner loop over one member's tag list from entry j on;
\* <<TRUE, stripped>> when an entry returns, <<FALSE, <<>>>> when the loop ends.
RECURSIVE TagLoop(_, _, _)
TagLoop(content, tags, j) ==
    IF j > Len(tags) THEN <<FALSE, <<>>>>
    ELSE LET tag == tags[j]
         IN IF tag.prefix = <<>> /\ tag.suffix = <<>>
            THEN TagLoop(content, tags, j + 1)
            ELSE LET o == TagOutcome(content, tag)
                 IN IF o.matches /\ o.stripped_content # <<>>
                    THEN <<TRUE, o.stripped_content>>
                    ELSE TagLoop(content, tags, j + 1)

\* Mutant of MemberLoop: a later member's match overrides an earlier one.
RECURSIVE MemberLoop_LastWins(_, _, _)
MemberLoop_LastWins(content, members, i) ==
    IF i > Len(members) THEN <<None, content>>
    ELSE LET later == MemberLoop_LastWins(content, members, i + 1)
             r == TagLoop(content, members[i].proxy_tags, 1)
         IN IF later[1] # None THEN later
            ELSE IF r[1] THEN <<members[i].id, r[2]>>
            ELSE later

\* Mutant of MemberLoop: the no-match return hands back the trimmed text.
RECURSIVE MemberLoop_Trims(_, _, _)
MemberLoop_Trims(content, members, i) ==
    IF i > Len(members) THEN <<None, strip(content)>>
    ELSE IF members[i].proxy_tags = <<>>
         THEN MemberLoop_Trims(content, members, i + 1)
         ELSE LET r == TagLoop(content, members[i].proxy_tags, 1)
              IN IF r[1] THEN <<members[i].id, r[2]>>
                 ELSE MemberLoop_Trims(content, members, i + 1)

\* Lines 34-83: the outer loop over the members from position i on.
RECURSIVE MemberLoop(_, _, _)
MemberLoop(content, members, i) ==
    IF i > Len(members) THEN <<None, content>>
    ELSE IF members[i].proxy_tags = <<>>
         THEN MemberLoop(content, members, i + 1)
         ELSE LET r == TagLoop(content, members[i].proxy_tags, 1)
              IN IF r[1] THEN <<members[i].id, r[2]>>
                 ELSE MemberLoop(content, members, i + 1)

parse_proxy_tags(content, members) == MemberLoop(content, members, 1)

(***************************************************************************)
(* Desktop matcher: ProxyDetector.                                         *)
(***************************************************************************)
Newline == "\n"

\* The lengths k >= 1 of a group (.+) or (.+?) for which
\* ^prefix(group)suffix$ matches text under re.DOTALL; `$' matches at the
\* end of the text and before a newline that ends the text.
GroupLengths(text, prefix, suffix) ==
    {k \in 1..(Len(text) - Len(prefix)) :
        /\ startswith(text, prefix)
        /\ LET rest == PySlice(text, Len(prefix) + k, Len(text))
           IN \/ rest = suffix
              \/ rest = suffix \o <<Newline>>}

Min(S) == CHOOSE x \in S : \A y \in S : x <= y

Max(S) == CHOOSE x \in S : \A y \in S : x >= y

\* _build_pattern + pattern.match(text): the captured group, or <<FALSE, <<>>>>.
\* prefix and suffix: lazy group (.+?); prefix only or suffix only: greedy (.+).
PatternMatch(text, prefix, suffix) ==
    LET ks == GroupLengths(text, prefix, suffix)
    IN IF ks = {} THEN <<FALSE, <<>>>>
       ELSE LET k == IF prefix # <<>> /\ suffix # <<>> THEN Min(ks) ELSE Max(ks)
            IN <<TRUE, SubSeq(text, Len(prefix) + 1, Len(prefix) + k)>>

\* The pattern a member's tag list leaves in _proxy_patterns[member id]:
\* every non-empty entry overwrites the one before, so the last one stays.
RECURSIVE LastPattern(_, _, _)
LastPattern(tags, j, acc) ==
    IF j > Len(tags) THEN acc
    ELSE IF tags[j].prefix = <<>> /\ tags[j].suffix = <<>>
         THEN LastPattern(tags, j + 1, acc)
         ELSE LastPattern(tags, j + 1, <<tags[j]>>)

\* _build_proxy_patterns: the dict as its item sequence (insertion order).
\* Member ids are unique, so a key is inserted once.
RECURSIVE _build_proxy_patterns(_, _)
_build_proxy_patterns(members, i) ==
    IF i > Len(members) THEN <<>>
    ELSE LET p == LastPattern(members[i].proxy_tags, 1, <<>>)
         IN IF p = <<>> THEN _build_proxy_patterns(members, i + 1)
            ELSE <<[member_id |-> members[i].id,
                    prefix |-> p[1].prefix,
                    suffix |-> p[1].suffix]>> \o _build_proxy_patterns(members, i + 1)

\* detect_proxy: <<member_id, message>> of the first pattern that matches,
\* <<None, text>> for the code's `return None'.
RECURSIVE detect_proxy(_, _, _)
detect_proxy(text, patterns, i) ==
    IF i > Len(patterns) THEN <<None, text>>
    ELSE LET m == PatternMatch(text, patterns[i].prefix, patterns[i].suffix)
         IN IF m[1] THEN <<patterns[i].member_id, strip(m[2])>>
            ELSE detect_proxy(text, patterns, i + 1)

\* str.lower and str.upper, letter by letter.
Uppercase ==
    <<"A", "B", "C", "D", "E", "F", "G", "H", "I", "J", "K", "L", "M", 
      "N", "O", "P", "Q", "R", "S", "T", "U", "V", "W", "X", "Y", "Z">>

Lowercase ==
    <<"a", "b", "c", "d", "e", "f", "g", "h", "i", "j", "k", "l", "m", 
      "n", "o", "p", "q", "r", "s", "t", "u", "v", "w", "x", "y", "z">>

LowerChar(c) ==
    IF \E i \in DOMAIN Uppercase : Uppercase[i] = c
    THEN Lowercase[CHOOSE i \in DOMAIN Uppercase : Uppercase[i] = c]
    ELSE c

UpperChar(c) ==
    IF \E i \in DOMAIN Lowercase : Lowercase[i] = c
    THEN Uppercase[CHOOSE i \in DOMAIN Lowercase : Lowercase[i] = c]
    ELSE c

lower(s) == [i \in DOMAIN s |-> LowerChar(s[i])]

upper(s) == [i \in DOMAIN s |-> UpperChar(s[i])]

(***************************************************************************)
(* The command registry (commands.py).  A dict is its item sequence in     *)
(* insertion order.  A Command object is named by the position of the      *)
(* registration that created it; handler results are opaque texts; <<>>    *)
(* stands for None where a text is expected.                               *)
(***************************************************************************)
\* The @registry.register(...) decorators of the module, in source order.
Registrations ==
    <<
       [name |-> <<"m", "e", "m", "b", "e", "r">>,
        aliases |-> <<<<"m">>>>],
       [name |-> <<"i", "n", "f", "o">>,
        aliases |-> <<<<"i">>, <<"w", "h", "o", "i", "s">>>>],
       [name |-> <<"l", "i", "s", "t">>,
        aliases |-> <<<<"m", "e", "m", "b", "e", "r", "s">>, <<"l", "s">>>>],
       [name |-> <<"s", "w", "i", "t", "c", "h">>,
        aliases |-> <<<<"s", "w">>>>],
       [name |-> <<"f", "r", "o", "n", "t">>,
        aliases |-> <<<<"f">>, <<"f", "r", "o", "n", "t", "e", "r", "s">>>>],
       [name |-> <<"h", "e", "l", "p">>,
        aliases |-> <<<<"h">>, <<"c", "o", "m", "m", "a", "n", "d", "s">>>>],
       [name |-> <<"r", "o", "l", "l">>,
        aliases |-> <<<<"d", "i", "c", "e">>>>],
       [name |-> <<"f", "l", "i", "p">>,
        aliases |-> <<<<"c", "o", "i", "n">>>>],
       [name |-> <<"p", "i", "n", "g">>,
        aliases |-> <<>>],
       [name |-> <<"s", "d", "c", "o", "n", "n", "e", "c", "t">>,
        aliases |-> <<<<"s", "d", "l", "i", "n", "k">>>>],
       [name |-> <<"s", "d", "t", "e", "s", "t">>,
        aliases |-> <<>>],
       [name |-> <<"s", "d", "m", "o", "d", "e", "l", "s">>,
        aliases |-> <<<<"m", "o", "d", "e", "l", "s">>>>],
       [name |-> <<"g", "e", "n", "e", "r", "a", "t", "e">>,
        aliases |-> <<<<"g", "e", "n">>, <<"i", "m", "g">>>>],
       [name |-> <<"s", "d", "d", "i", "s", "c", "o", "n", "n", "e", "c", "t">>,
        aliases |-> <<>>]
    >>

\* self.commands.get(key)
DictGet(d, key) ==
    IF \E i \in DOMAIN d : d[i].key = key
    THEN d[CHOOSE i \in DOMAIN d : d[i].key = key].cmd
    ELSE None

\* self.commands[key] = command
DictSet(d, key, command) ==
    IF \E i \in DOMAIN d : d[i].key = key
    THEN [d EXCEPT ![CHOOSE i \in DOMAIN d : d[i].key = key].cmd = command]
    ELSE Append(d, [key |-> key, cmd |-> command])

\* Lines 51-53: for alias in aliases: self.commands[alias] = command
RECURSIVE RegisterAliases(_, _, _, _)
RegisterAliases(d, aliases, j, command) ==
    IF j > Len(aliases) THEN d
    ELSE RegisterAliases(DictSet(d, aliases[j], command), aliases, j + 1, command)

\* A register that stores the command under its name only.
register_NameOnly(d, command) == DictSet(d, Registrations[command].name, command)

\* CommandRegistry.register's decorator, applied by registration `command'.
register(d, command) ==
    RegisterAliases(DictSet(d, Registrations[command].name, command),
                    Registrations[command].aliases, 1, command)

\* The dict after the first n registrations of the module.
RECURSIVE Imported(_)
Imported(n) == IF n = 0 THEN <<>> ELSE register(Imported(n - 1), n)

\* registry.commands once commands.py is imported.
registry == Imported(Len(Registrations))

\* Keys of registry.commands.
CommandNames == {registry[i].key : i \in DOMAIN registry}

UnknownCommand == <<"unknown command">>

CommandError == <<"error executing command">>

CommandResult == <<"command result">>

\* An exception that leaves a call.
Exception == <<"exception">>

\* message[1:].split()[0]: the first whitespace-separated word, <<>> if none.
RECURSIVE TakeWord(_)
TakeWord(s) ==
    IF s = <<>> \/ Head(s) \in Whitespace THEN <<>>
    ELSE <<Head(s)>> \o TakeWord(Tail(s))

\* Lines 66-78 of execute: the Command object the message resolves to.
find_command(d, message) ==
    IF ~startswith(message, <<"/">>) THEN None
    ELSE LET word == TakeWord(lstrip(Tail(message)))
         IN IF word = <<>> THEN None ELSE DictGet(d, lower(word))

\* await command.handler(user_id, args, db): "ok" when the handler returns
\* its text, "raise" when it raises.
call_handler(handler) == IF handler = "raise" THEN Exception ELSE CommandResult

\* Lines 84-89 without the except clause.
try_handler_NoExcept(handler) == call_handler(handler)

\* Lines 84-89: try: result = await command.handler(...) except Exception.
try_handler(handler) ==
    LET result == call_handler(handler)
    IN IF result = Exception THEN CommandError ELSE result

\* CommandRegistry.execute on the registry d.
execute(d, message, handler) ==
    IF ~startswith(message, <<"/">>) THEN <<>>
    ELSE LET word == TakeWord(lstrip(Tail(message)))
         IN IF word = <<>> THEN <<>>
            ELSE IF DictGet(d, lower(word)) = None THEN UnknownCommand
            ELSE try_handler(handler)

\* Lines 93-99 without the `seen' set: one entry per key of the dict.
unique_commands_NoSeen(d) == [i \in DOMAIN d |-> d[i].cmd]

\* Lines 93-99 of get_help_text: the values of the dict, in its order, without
\* those whose name was seen before.
RECURSIVE UniqueFrom(_, _, _)
UniqueFrom(d, i, acc) ==
    IF i > Len(d) THEN acc
    ELSE IF \E j \in DOMAIN acc :
                Registrations[acc[j]].name = Registrations[d[i].cmd].name
    THEN UniqueFrom(d, i + 1, acc)
    ELSE UniqueFrom(d, i + 1, Append(acc, d[i].cmd))

unique_commands(d) == UniqueFrom(d, 1, <<>>)

\* The order of characters and of texts that str comparison uses.
CharCode(c) ==
    LET letters == Uppercase \o Lowercase
    IN IF \E i \in DOMAIN letters : letters[i] = c
       THEN CHOOSE i \in DOMAIN letters : letters[i] = c
       ELSE 0

RECURSIVE TextLess(_, _)
TextLess(a, b) ==
    IF b = <<>> THEN FALSE
    ELSE IF a = <<>> THEN TRUE
    ELSE IF Head(a) # Head(b) THEN CharCode(Head(a)) < CharCode(Head(b))
    ELSE TextLess(Tail(a), Tail(b))

\* Line 102: unique_commands.sort(key=lambda c: c.name), a stable sort.
RECURSIVE InsertByName(_, _)
InsertByName(sorted, command) ==
    IF sorted = <<>> THEN <<command>>
    ELSE IF TextLess(Registrations[command].name, Registrations[Head(sorted)].name)
    THEN <<command>> \o sorted
    ELSE <<Head(sorted)>> \o InsertByName(Tail(sorted), command)

RECURSIVE SortByName(_)
SortByName(cmds) ==
    IF cmds = <<>> THEN <<>>
    ELSE InsertByName(SortByName(SubSeq(cmds, 1, Len(cmds) - 1)), cmds[Len(cmds)])

\* Lines 107-125: the category a command is listed under, in the order of
\* the `categories' dict; Utility takes every name the lists do not hold.
Categories ==
    << {<<"m", "e", "m", "b", "e", "r">>, <<"i", "n", "f", "o">>,
        <<"l", "i", "s", "t">>, <<"r", "e", "n", "a", "m", "e">>},
       {<<"s", "w", "i", "t", "c", "h">>, <<"f", "r", "o", "n", "t">>,
        <<"s", "w", "i", "t", "c", "h", "h", "i", "s", "t", "o", "r", "y">>},
       {<<"p", "r", "o", "x", "y">>,
        <<"a", "u", "t", "o", "p", "r", "o", "x", "y">>},
       {<<"s", "e", "t", "t", "i", "n", "g", "s">>, <<"t", "h", "e", "m", "e">>,
        <<"e", "x", "p", "o", "r", "t">>} >>

Utility == Len(Categories) + 1

CategoryOf(name) ==
    IF \E k \in DOMAIN Categories : name \in Categories[k]
    THEN CHOOSE k \in DOMAIN Categories :
            name \in Categories[k] /\ \A h \in 1..(k - 1) : name \notin Categories[h]
    ELSE Utility

\* Lines 127-135: the entries of the listing, category by category.
RECURSIVE ListingFrom(_, _)
ListingFrom(cmds, k) ==
    IF k > Utility THEN <<>>
    ELSE SelectSeq(cmds, LAMBDA command : CategoryOf(Registrations[command].name) = k)
         \o ListingFrom(cmds, k + 1)

\* CommandRegistry.get_help_text: the commands its entries are about, in the
\* order of the text.
get_help_text(d) == ListingFrom(SortByName(unique_commands(d)), 1)

\* The command harness at rest: the module is imported, nothing was called.
NoOut == [op |-> "", message |-> <<>>, handler |-> "", command |-> None,
          result |-> <<>>, help |-> <<>>]

CommandsIdle ==
    /\ commands = registry
    /\ cmdPc = Len(Registrations)
    /\ cmdOut = NoOut

(***************************************************************************)
(* ConnectionManager: the registry user_id -> set of session ids.          *)
(***************************************************************************)
Users == {1, 2}

Sids == {"s1", "s2", "s3"}

HasKey(d, user_id) == \E i \in DOMAIN d : d[i].user_id = user_id

IndexOf(d, user_id) == CHOOSE i \in DOMAIN d : d[i].user_id = user_id

\* del d[key]: the item sequence without entry i.
DelEntry(d, i) == SubSeq(d, 1, i - 1) \o SubSeq(d, i + 1, Len(d))

\* ConnectionManager.connect(sid, user_id).
cm_connect(d, sid, user_id) ==
    LET d1 == IF ~HasKey(d, user_id)
              THEN Append(d, [user_id |-> user_id, sids |-> {}])
              ELSE d
        i == IndexOf(d1, user_id)
    IN [d1 EXCEPT ![i].sids = @ \cup {sid}]

\* Mutant of cm_disconnect: the emptied set is left under its key.
cm_disconnect_KeepsEmpty(d, sid, user_id) ==
    IF HasKey(d, user_id)
    THEN [d EXCEPT ![IndexOf(d, user_id)].sids = @ \ {sid}]
    ELSE d

\* ConnectionManager.disconnect(sid, user_id).
cm_disconnect(d, sid, user_id) ==
    IF HasKey(d, user_id)
    THEN LET i == IndexOf(d, user_id)
             d1 == [d EXCEPT ![i].sids = @ \ {sid}]
         IN IF d1[i].sids = {} THEN DelEntry(d1, i) ELSE d1
    ELSE d

\* A lookup that yields the sessions of every account.
get_user_sessions_Everyone(d, user_id) ==
    UNION {d[i].sids : i \in DOMAIN d}

\* ConnectionManager.get_user_sessions(user_id).
get_user_sessions(d, user_id) ==
    IF HasKey(d, user_id) THEN d[IndexOf(d, user_id)].sids ELSE {}

\* A lookup that creates the entry it does not find (dict.setdefault).
cm_get_user_sessions_SetDefault(d, user_id) ==
    [sessions |-> get_user_sessions(d, user_id),
     dict |-> IF HasKey(d, user_id) THEN d
              ELSE Append(d, [user_id |-> user_id, sids |-> {}])]

\* A call of get_user_sessions: what it returns and the dict it leaves;
\* `self.active_connections.get(user_id, set())' stores nothing.
cm_get_user_sessions(d, user_id) ==
    [sessions |-> get_user_sessions(d, user_id), dict |-> d]

RegistryIdle ==
    /\ active_connections = <<>>
    /\ regTrace = <<>>

\* The mention harness at rest.
NoScan == [done |-> FALSE, ai |-> None]

NoWindow == [done |-> FALSE, n |-> 0, history |-> <<>>, used |-> <<>>, context |-> <<>>]

HistoryIdle ==
    /\ hRows = <<>>
    /\ hOut = NoWindow

NoDetect == [text |-> <<>>, result |-> <<None, <<>>>>]

DetectorIdle ==
    /\ dMembers = <<>>
    /\ dPatterns = <<>>
    /\ dOut = NoDetect

MentionIdle ==
    /\ mContent = <<>>
    /\ mAis = <<>>
    /\ mOut = NoScan

RouterIdle ==
    /\ sidState = [sid \in Sids |-> "new"]
    /\ session = [sid \in Sids |-> None]
    /\ messages = <<>>
    /\ inbox = [sid \in Sids |-> <<>>]
    /\ tasks = <<>>

(***************************************************************************)
(* Registry harness: any sequence of connect and disconnect calls.         *)
(***************************************************************************)
RegInit ==
    /\ RegistryIdle
    /\ RouterIdle
    /\ MentionIdle
    /\ DetectorIdle
    /\ HistoryIdle
    /\ CommandsIdle
    /\ rText = <<>>
    /\ rMembers = <<>>
    /\ rWeb = <<None, <<>>>>
    /\ rDesk = <<None, <<>>>>
    /\ rPc = {}

RegConnect(sid, user_id) ==
    /\ Len(regTrace) < MaxCalls
    /\ active_connections' = cm_connect(active_connections, sid, user_id)
    /\ regTrace' = Append(regTrace, <<"connect", sid, user_id>>)
    /\ UNCHANGED <<rvars, routervars, cvars, mvars, dvars, hvars>>

RegDisconnect(sid, user_id) ==
    /\ Len(regTrace) < MaxCalls
    /\ active_connections' = cm_disconnect(active_connections, sid, user_id)
    /\ regTrace' = Append(regTrace, <<"disconnect", sid, user_id>>)
    /\ UNCHANGED <<rvars, routervars, cvars, mvars, dvars, hvars>>

RegGet(user_id) ==
    /\ Len(regTrace) < MaxCalls
    /\ LET r == cm_get_user_sessions(active_connections, user_id)
       IN /\ active_connections' = r.dict
          /\ regTrace' = Append(regTrace, <<"get", "", user_id, r.sessions>>)
    /\ UNCHANGED <<rvars, routervars, cvars, mvars, dvars, hvars>>

RegNext ==
    \/ \E sid \in Sids, user_id \in Users : RegConnect(sid, user_id)
    \/ \E sid \in Sids, user_id \in Users : RegDisconnect(sid, user_id)
    \/ \E user_id \in Users : RegGet(user_id)

SpecRegistry == RegInit /\ [][RegNext]_vars

\* C2: no key of the registry maps to an empty set of session ids, whatever
\* connect and disconnect calls were made.
C2_NoEmptySet ==
    \A i \in DOMAIN active_connections : active_connections[i].sids # {}

\* C2 witness: attach(A, h1), attach(A, h2), detach(A, h1), detach(A, h2)
\* was run and A has no entry.
C2_Witness ==
    /\ regTrace = << <<"connect", "s1", 1>>, <<"connect", "s2", 1>>,
                     <<"disconnect", "s1", 1>>, <<"disconnect", "s2", 1>> >>
    /\ ~HasKey(active_connections, 1)

(***************************************************************************)
(* Resolver harness: inputs drawn from bounded sets, one action per        *)
(* matcher.                                                                *)
(***************************************************************************)
\* Tag entries the member lists are built from.
Brackets == [prefix |-> <<"[">>, suffix |-> <<"]">>]

PrefixA == [prefix |-> <<"a">>, suffix |-> <<>>]

PrefixBracket == [prefix |-> <<"[">>, suffix |-> <<>>]

SuffixBracket == [prefix |-> <<>>, suffix |-> <<"]">>]

Overlap == [prefix |-> <<"[">>, suffix |-> <<"[">>]

EmptyPair == [prefix |-> <<>>, suffix |-> <<>>]

\* The proxy-tag lists a member can carry: none, one entry of each shape,
\* two entries in both orders, and a list led by a pair the code skips.
TagLists ==
    { <<>>,
      <<Brackets>>, <<PrefixA>>, <<PrefixBracket>>, <<SuffixBracket>>, <<Overlap>>,
      <<Brackets, PrefixA>>, <<PrefixA, Brackets>>,
      <<PrefixBracket, Brackets>>, <<EmptyPair, SuffixBracket>> }

\* Member lists: member i of the list has id i (ids are unique keys).
MemberLists ==
    UNION { { [i \in 1..n |-> [id |-> i, proxy_tags |-> f[i]]] : f \in [1..n -> TagLists] }
            : n \in 0..MaxMembers }

ResolveInit ==
    /\ rText \in TextsUpTo(MaxLen)
    /\ rMembers \in MemberLists
    /\ rWeb = <<None, <<>>>>
    /\ rDesk = <<None, <<>>>>
    /\ rPc = {}
    /\ RegistryIdle
    /\ RouterIdle
    /\ MentionIdle
    /\ DetectorIdle
    /\ HistoryIdle
    /\ CommandsIdle

ResolveWeb ==
    /\ "web" \notin rPc
    /\ rWeb' = parse_proxy_tags(rText, rMembers)
    /\ rPc' = rPc \cup {"web"}
    /\ UNCHANGED <<rText, rMembers, rDesk, regvars, routervars, cvars, mvars, dvars, hvars>>

ResolveDesktop ==
    /\ "desktop" \notin rPc
    /\ rDesk' = detect_proxy(rText, _build_proxy_patterns(rMembers, 1), 1)
    /\ rPc' = rPc \cup {"desktop"}
    /\ UNCHANGED <<rText, rMembers, rWeb, regvars, routervars, cvars, mvars, dvars, hvars>>

ResolveNext == ResolveWeb \/ ResolveDesktop

SpecResolve == ResolveInit /\ [][ResolveNext]_vars


(***************************************************************************)
(* The router: database tables the handlers read.  Member, channel and     *)
(* command tables are fixed; the handlers only add rows to messages.       *)
(***************************************************************************)
\* Members: 1 and 2 belong to user 1 (2 is an enabled AI character named
\* "R"), 3 belongs to user 2.
MemberTable ==
    << [id |-> 1, user_id |-> 1, name |-> <<"a">>, proxy_tags |-> <<Brackets>>,
        is_active |-> TRUE, is_ai |-> FALSE, ai_enabled |-> FALSE],
       [id |-> 2, user_id |-> 1, name |-> <<"R">>, proxy_tags |-> <<>>,
        is_active |-> TRUE, is_ai |-> TRUE, ai_enabled |-> TRUE],
       [id |-> 3, user_id |-> 2, name |-> <<"b">>, proxy_tags |-> <<PrefixA>>,
        is_active |-> TRUE, is_ai |-> FALSE, ai_enabled |-> FALSE] >>

\* Channels 1 and 2 belong to user 1, channel 3 to user 2.
ChannelTable ==
    << [id |-> 1, user_id |-> 1], [id |-> 2, user_id |-> 1], [id |-> 3, user_id |-> 2] >>

\* The user each socket's token authenticates as.
TokenUser == [sid \in Sids |-> IF sid = "s3" THEN 2 ELSE 1]

\* db.query(Member).filter(user_id == ..., is_active == True).all()
MembersOf(user_id) ==
    SelectSeq(MemberTable, LAMBDA m : m.user_id = user_id /\ m.is_active)

\* db.query(Member).filter(id == member_id, user_id == ...).first() is not None
MemberOwned(member_id, user_id) ==
    \E i \in DOMAIN MemberTable :
        MemberTable[i].id = member_id /\ MemberTable[i].user_id = user_id

\* db.query(Channel).filter(id == channel_id, user_id == ...).first() is not None
ChannelOwned(channel_id, user_id) ==
    \E i \in DOMAIN ChannelTable :
        ChannelTable[i].id = channel_id /\ ChannelTable[i].user_id = user_id

\* db.query(Member).filter(user_id == ..., is_ai == True, ai_enabled == True).all()
AiCharacters(user_id) ==
    SelectSeq(MemberTable, LAMBDA m : m.user_id = user_id /\ m.is_ai /\ m.ai_enabled)

\* sub in s
Contains(s, sub) ==
    \E i \in 0..(Len(s) - Len(sub)) : SubSeq(s, i + 1, i + Len(sub)) = sub

\* The condition of lines 209-211 for one AI character.
Mentions(content, name) ==
    \/ Contains(content, <<"@">> \o name)
    \/ startswith(lower(content), lower(name) \o <<":">>)
    \/ startswith(lower(content), lower(name) \o <<" ">>)

\* A scan that goes on after a match: the last character mentioned is kept.
RECURSIVE MentionedAi_LastWins(_, _, _)
MentionedAi_LastWins(content, ai_characters, i) ==
    IF i > Len(ai_characters) THEN None
    ELSE LET later == MentionedAi_LastWins(content, ai_characters, i + 1)
         IN IF later # None THEN later
            ELSE IF Mentions(content, ai_characters[i].name) THEN ai_characters[i].id
            ELSE None

\* Lines 206-213: the id of the first AI character the content mentions.
RECURSIVE MentionedAi(_, _, _)
MentionedAi(content, ai_characters, i) ==
    IF i > Len(ai_characters) THEN None
    ELSE IF Mentions(content, ai_characters[i].name) THEN ai_characters[i].id
    ELSE MentionedAi(content, ai_characters, i + 1)

(***************************************************************************)
(* Iteration over the registry's live objects.                             *)
(*                                                                         *)
(* A set iterator holds a reference to the set object: `live' says the     *)
(* object is still the one stored under `user' (a deleted entry's set is   *)
(* empty and unreachable from the dict; get_user_sessions of an absent key *)
(* returns a fresh empty set).  CPython scans the hash table in slot       *)
(* order and raises RuntimeError when the size differs from the size at    *)
(* the iterator's creation.                                                *)
(***************************************************************************)
Slot == [sid \in Sids |-> CASE sid = "s1" -> 1 [] sid = "s2" -> 2 [] OTHER -> 3]

NoIt == [user |-> None, live |-> FALSE, used |-> 0, pos |-> 0]

SetOf(it, d) == IF it.live THEN get_user_sessions(d, it.user) ELSE {}

\* iter(sessions) for sessions = get_user_sessions(user) or the dict's value.
NewIt(d, user_id) ==
    [user |-> user_id, live |-> HasKey(d, user_id),
     used |-> Cardinality(get_user_sessions(d, user_id)), pos |-> 0]

\* iter(sessions) again on the set object an earlier iterator refers to.
ReIt(it, d) == [it EXCEPT !.used = Cardinality(SetOf(it, d)), !.pos = 0]

\* next(iterator)
SetNext(it, d) ==
    LET cur == SetOf(it, d)
        ahead == {sid \in cur : Slot[sid] > it.pos}
    IN IF Cardinality(cur) # it.used THEN [kind |-> "RuntimeError", sid |-> ""]
       ELSE IF ahead = {} THEN [kind |-> "StopIteration", sid |-> ""]
       ELSE [kind |-> "yield",
             sid |-> CHOOSE sid \in ahead : \A o \in ahead : Slot[sid] <= Slot[o]]

\* The dict iterator of active_connections.items(): `behind' are the keys
\* whose entry lies behind the cursor, `left' the number of items it still
\* expects (CPython's di_used and len).
NoDit == [used |-> 0, behind |-> {}, left |-> 0]

NewDit(d) == [used |-> Len(d), behind |-> {}, left |-> Len(d)]

DictNext(dit, d) ==
    LET ahead == {i \in DOMAIN d : d[i].user_id \notin dit.behind}
    IN IF Len(d) # dit.used THEN [kind |-> "RuntimeError", user |-> None]
       ELSE IF ahead = {} THEN [kind |-> "StopIteration", user |-> None]
       ELSE IF dit.left = 0 THEN [kind |-> "RuntimeError", user |-> None]
       ELSE [kind |-> "yield", user |-> d[Min(ahead)].user_id]

(***************************************************************************)
(* Handler instances.  A task record is one running (or finished) handler  *)
(* or background task; tasks are kept in the order they began.             *)
(*   kind    "ws" (Socket.IO send_message), "http" (POST /messages and its *)
(*           broadcast_to_all task), "user" (broadcast_to_user)            *)
(*   pc      "loop", "ai_wait", "bg", "all_loop", "done"                   *)
(*   phase   the emit loop the task is in or was last in: "cmd", "msg",    *)
(*           "ai", "all", "evt"; "" before any                             *)
(*   ev      the payload being emitted                                     *)
(*   it/dit  set and dict iterators                                        *)
(*   ai      the mentioned AI character while its provider is awaited      *)
(*   result  what the handler returned or raised                           *)
(* bstart, tried, dead and failed record, for the properties, the sids     *)
(* attached when the current loop began, the sids emit was called for, the *)
(* sids whose emit raised, and whether an emit raised; data is the inbound *)
(* payload the handler was called with, persisted says how db.commit       *)
(* ended ("no" while it was not reached) and provider how the awaited      *)
(* provider call ended ("" while none has).                                *)
(***************************************************************************)
NoEv == [event |-> "", id |-> 0, member_id |-> None, channel_id |-> None,
         content |-> <<>>, is_system |-> FALSE]

NoData == [content |-> <<>>, member_id |-> None, channel_id |-> None]

NewTask(kind, user_id, sid) ==
    [kind |-> kind, pc |-> "start", phase |-> "", user |-> user_id, sid |-> sid,
     msg |-> 0, ev |-> NoEv, it |-> NoIt, dit |-> NoDit, ai |-> None,
     bstart |-> {}, tried |-> {}, dead |-> {}, failed |-> FALSE,
     data |-> NoData, persisted |-> "no", provider |-> "", result |-> "pending"]

\* The handler returns or raises: nothing of its frame is left.
Done(rec, result) ==
    [rec EXCEPT !.pc = "done", !.result = result, !.ev = NoEv, !.it = NoIt,
                !.dit = NoDit, !.ai = None]

\* An exception leaves the loop.  send_message catches it (lines 251-253),
\* logs it and returns an error; broadcast_to_user and broadcast_to_all let
\* it reach their caller.
Raise(rec) == Done(rec, IF rec.kind = "ws" THEN "error" ELSE "raised")

\* A handler that goes on to its broadcast after a failed commit.
PersistFailed_StillBroadcasts(rec) ==
    [rec EXCEPT !.persisted = "failed", !.pc = "bg",
                !.ev = [NoEv EXCEPT !.event = "message", !.content = rec.data.content]]

\* db.commit() raises (websocket.py line 166, messages.py line 174): the
\* exception leaves the handler before any broadcast is prepared.
PersistFailed(rec) == Raise([rec EXCEPT !.persisted = "failed"])

\* sio_app.emit(event, data, room=sid) that does not raise: the client of an
\* open socket receives the event; the room of a closed socket is empty.
Deliver(inb, state, sid, ev, tid, phase) ==
    IF state[sid] = "open"
    THEN [inb EXCEPT ![sid] = Append(@, ev @@ [task |-> tid, phase |-> phase])]
    ELSE inb

AllAttached(d) == UNION {d[i].sids : i \in DOMAIN d}

\* `sessions = get_user_sessions(user_id)' followed by `for session_id in sessions'.
BeginLoop(rec, phase, ev, d) ==
    [rec EXCEPT !.pc = "loop", !.phase = phase, !.ev = ev,
                !.it = NewIt(d, rec.user),
                !.bstart = get_user_sessions(d, rec.user),
                !.tried = {}, !.dead = {}, !.failed = FALSE]

\* A handler that runs the mention scan after the AI loop as well.
AfterLoop_Rescans(rec) ==
    IF rec.kind = "ws" /\ rec.phase \in {"msg", "ai"}
    THEN LET mentioned_ai == MentionedAi(rec.ev.content, AiCharacters(rec.user), 1)
         IN IF mentioned_ai # None
            THEN [rec EXCEPT !.pc = "ai_wait", !.ai = mentioned_ai]
            ELSE Done(rec, "ok")
    ELSE Done(rec, IF rec.phase = "cmd" THEN "ok is_command" ELSE "ok")

\* Lines 191-213 and 215-227: after the message loop the handler looks for a
\* mentioned AI character and, if there is one, awaits its provider.  The
\* set object of `sessions' stays referenced for the AI loop.
AfterLoop(rec) ==
    IF rec.kind = "ws" /\ rec.phase = "msg"
    THEN LET mentioned_ai == MentionedAi(rec.ev.content, AiCharacters(rec.user), 1)
         IN IF mentioned_ai # None
            THEN [rec EXCEPT !.pc = "ai_wait", !.ai = mentioned_ai]
            ELSE Done(rec, "ok")
    ELSE Done(rec, IF rec.phase = "cmd" THEN "ok is_command" ELSE "ok")

\* A handler that starts the generation of the reply before its broadcast.
RunLoop_GeneratesFirst(rec, tid, inb, state, d, emit) ==
    [task |-> AfterLoop(rec), inbox |-> inb]

\* One turn of `for session_id in sessions: await sio_app.emit(...)': from
\* the resumption after the previous await to the next emit.  emit is "ok"
\* or "raise".
RunLoop(rec, tid, inb, state, d, emit) ==
    LET n == SetNext(rec.it, d)
    IN IF n.kind = "RuntimeError" THEN [task |-> Raise(rec), inbox |-> inb]
       ELSE IF n.kind = "StopIteration" THEN [task |-> AfterLoop(rec), inbox |-> inb]
       ELSE IF emit = "raise"
       THEN [task |-> Raise([rec EXCEPT !.tried = @ \cup {n.sid}, !.dead = @ \cup {n.sid},
                                     !.failed = TRUE]),
             inbox |-> inb]
       ELSE [task |-> [rec EXCEPT !.it.pos = Slot[n.sid], !.tried = @ \cup {n.sid}],
             inbox |-> Deliver(inb, state, n.sid, rec.ev, tid, rec.phase)]

\* One turn of broadcast_to_all's nested loops (lines 286-289): from the
\* resumption after the previous await to the next emit.
RECURSIVE RunAllLoop(_, _, _, _, _, _)
RunAllLoop(rec, tid, inb, state, d, emit) ==
    IF rec.it = NoIt
    THEN LET n == DictNext(rec.dit, d)
         IN IF n.kind = "RuntimeError" THEN [task |-> Raise(rec), inbox |-> inb]
            ELSE IF n.kind = "StopIteration" THEN [task |-> Done(rec, "ok"), inbox |-> inb]
            ELSE RunAllLoop([rec EXCEPT !.dit.behind = @ \cup {n.user},
                                        !.dit.left = @ - 1,
                                        !.it = NewIt(d, n.user)],
                            tid, inb, state, d, emit)
    ELSE LET n == SetNext(rec.it, d)
         IN IF n.kind = "RuntimeError" THEN [task |-> Raise(rec), inbox |-> inb]
            ELSE IF n.kind = "StopIteration"
            THEN RunAllLoop([rec EXCEPT !.it = NoIt], tid, inb, state, d, emit)
            ELSE IF emit = "raise"
            THEN [task |-> Raise([rec EXCEPT !.tried = @ \cup {n.sid}, !.dead = @ \cup {n.sid},
                                     !.failed = TRUE]),
                  inbox |-> inb]
            ELSE [task |-> [rec EXCEPT !.it.pos = Slot[n.sid], !.tried = @ \cup {n.sid}],
                  inbox |-> Deliver(inb, state, n.sid, rec.ev, tid, rec.phase)]

\* `del active_connections[user_id]': iterators that refer to the deleted
\* entry's set keep the emptied object, and the key is behind no cursor.
Orphan(ts, user_id) ==
    [t \in DOMAIN ts |->
        [ts[t] EXCEPT !.it.live = @ /\ ts[t].it.user # user_id,
                      !.dit.behind = @ \ {user_id}]]

(***************************************************************************)
(* Inbound events the router is driven with.                               *)
(***************************************************************************)
\* A channel id no row of the channels table has.
UnknownChannel == 9

\* The `data' of Socket.IO send_message events.
WsInputs ==
    { [content |-> <<"a">>, member_id |-> 1, channel_id |-> 1],
      [content |-> <<"a">>, member_id |-> 1, channel_id |-> 2],
      [content |-> <<"[", "a", "]">>, member_id |-> 1, channel_id |-> 1],
      [content |-> <<"/", "h">>, member_id |-> 1, channel_id |-> 1],
      [content |-> <<"@", "R">>, member_id |-> 1, channel_id |-> 1],
      [content |-> <<"a">>, member_id |-> 3, channel_id |-> 1],
      [content |-> <<>>, member_id |-> 1, channel_id |-> 1],
      [content |-> <<"[", "a", "]">>, member_id |-> 2, channel_id |-> 1],
      [content |-> <<"a">>, member_id |-> 1, channel_id |-> UnknownChannel],
      [content |-> <<"a">>, member_id |-> None, channel_id |-> 1],
      [content |-> <<"/">>, member_id |-> 1, channel_id |-> 1] }

\* The MessageCreate bodies of POST /messages.
HttpInputs ==
    { [content |-> <<"a">>, member_id |-> None, channel_id |-> 1],
      [content |-> <<"a">>, member_id |-> None, channel_id |-> 2],
      [content |-> <<"[", "a", "]">>, member_id |-> None, channel_id |-> 1],
      [content |-> <<"/", "h">>, member_id |-> None, channel_id |-> None],
      [content |-> <<>>, member_id |-> None, channel_id |-> 1],
      [content |-> <<"a">>, member_id |-> 3, channel_id |-> 1],
      [content |-> <<"a">>, member_id |-> None, channel_id |-> 3],
      [content |-> <<"[", "a", "]">>, member_id |-> 2, channel_id |-> 1],
      [content |-> <<"a">>, member_id |-> 1, channel_id |-> UnknownChannel] }

Outcomes == {"ok", "raise"}

\* What the awaited provider call of ai_manager.get_response ends with.
AiText == <<"ai response">>

\* A provider response that itself addresses the AI character.
AiMention == <<"@", "R">>

AiFallback == <<"seems confused and doesn't respond">>

AiOutcomes == {"text", "mention", "empty", "error"}

\* A get_response without its except clause: the provider's exception
\* leaves it.
get_response_Reraises(outcome) ==
    CASE outcome = "text" -> AiText
      [] outcome = "mention" -> AiMention
      [] outcome = "empty" -> <<>>
      [] OTHER -> Exception

\* AICharacterManager.get_response (ai_characters.py lines 27-53) by how the
\* provider call ends: its text ("mention": a text that addresses the
\* character again), an empty text or None ("empty": the provider's stripped
\* text is empty, or the character has no known provider), or the fallback
\* text made of an exception ("error": the httpx timeout expired, or the
\* provider failed).
get_response(outcome) ==
    CASE outcome = "text" -> AiText
      [] outcome = "mention" -> AiMention
      [] outcome = "empty" -> <<>>
      [] OTHER -> AiFallback

(***************************************************************************)
(* Socket.IO connect and disconnect handlers.                              *)
(***************************************************************************)
\* connect(sid, environ, auth).  "reject": no token, or verify_token raises;
\* "accept": the handler returns True; "emit_raises": an exception after
\* connection_manager.connect (lines 68-71) makes it return False.
Connect(sid, outcome) ==
    /\ sidState[sid] = "new"
    /\ IF outcome = "reject"
       THEN /\ sidState' = [sidState EXCEPT ![sid] = "closed"]
            /\ UNCHANGED <<active_connections, session, inbox>>
       ELSE /\ active_connections' = cm_connect(active_connections, sid, TokenUser[sid])
            /\ session' = [session EXCEPT ![sid] = TokenUser[sid]]
            /\ IF outcome = "accept"
               THEN /\ sidState' = [sidState EXCEPT ![sid] = "open"]
                    /\ inbox' = [inbox EXCEPT ![sid] =
                                   Append(@, [NoEv EXCEPT !.event = "connected"]
                                              @@ [task |-> 0, phase |-> ""])]
               ELSE /\ sidState' = [sidState EXCEPT ![sid] = "closed"]
                    /\ UNCHANGED inbox
    /\ UNCHANGED <<messages, tasks, rvars, regTrace, cvars, mvars, dvars, hvars>>

\* disconnect(sid): called for a connection that was accepted.
Disconnect(sid) ==
    /\ sidState[sid] = "open"
    /\ sidState' = [sidState EXCEPT ![sid] = "closed"]
    /\ LET user_id == session[sid]
           d == IF user_id # None
                THEN cm_disconnect(active_connections, sid, user_id)
                ELSE active_connections
       IN /\ active_connections' = d
          /\ tasks' = IF HasKey(active_connections, user_id) /\ ~HasKey(d, user_id)
                      THEN Orphan(tasks, user_id)
                      ELSE tasks
    /\ UNCHANGED <<session, messages, inbox, rvars, regTrace, cvars, mvars, dvars, hvars>>

(***************************************************************************)
(* Socket.IO send_message (websocket.py lines 96-253).                     *)
(***************************************************************************)
\* A handler without the check of the session's account: it stores what
\* arrives.
ws_send_message_NoAuthCheck(sid, data, tid, handler, persist, emit) ==
    LET id == Len(messages) + 1
    IN [task |-> Done([NewTask("ws", session[sid], sid)
                          EXCEPT !.data = data, !.msg = id, !.persisted = "ok"], "ok"),
        messages |-> Append(messages,
                            [id |-> id, task |-> tid, user |-> session[sid],
                             member_id |-> data.member_id, channel_id |-> data.channel_id,
                             content |-> data.content, raw |-> data.content,
                             given |-> data.member_id]),
        inbox |-> inbox]

\* The handler from its start to its first suspending await: the returned
\* record holds the task, the messages table and the inboxes after it.
ws_send_message(sid, data, tid, handler, persist, emit) ==
    LET user_id == session[sid]
        base == [NewTask("ws", user_id, sid) EXCEPT !.data = data]
        Return(result) ==
            [task |-> Done(base, result), messages |-> messages, inbox |-> inbox]
    IN IF user_id = None THEN Return("Not authenticated")
       ELSE IF data.content = <<>> \/ data.member_id = None
       THEN Return("Missing content or member_id")
       ELSE IF startswith(data.content, <<"/">>)
       THEN LET result == execute(commands, data.content, handler)
                command_response ==
                    [event |-> "message", id |-> 0, member_id |-> data.member_id,
                     channel_id |-> None, content |-> result, is_system |-> TRUE]
            IN IF result # <<>>
               THEN LET r == RunLoop(BeginLoop(base, "cmd", command_response,
                                               active_connections),
                                     tid, inbox, sidState, active_connections, emit)
                    IN [task |-> r.task, messages |-> messages, inbox |-> r.inbox]
               ELSE Return("ok is_command")
       ELSE IF ~MemberOwned(data.member_id, user_id)
       THEN Return("Member not found or unauthorized")
       ELSE IF persist = "raise"
       THEN [task |-> PersistFailed(base), messages |-> messages, inbox |-> inbox]
       ELSE LET id == Len(messages) + 1
                new_message ==
                    [id |-> id, task |-> tid, user |-> user_id,
                     member_id |-> data.member_id, channel_id |-> data.channel_id,
                     content |-> data.content, raw |-> data.content,
                     given |-> data.member_id]
                message_data ==
                    [event |-> "message", id |-> id, member_id |-> data.member_id,
                     channel_id |-> data.channel_id, content |-> data.content,
                     is_system |-> FALSE]
                r == RunLoop(BeginLoop([base EXCEPT !.msg = id, !.persisted = "ok"],
                                       "msg", message_data,
                                       active_connections),
                             tid, inbox, sidState, active_connections, emit)
            IN [task |-> r.task, messages |-> Append(messages, new_message),
                inbox |-> r.inbox]

WsSendMessage(limit, sid, data, handler, persist, emit) ==
    /\ Len(tasks) < limit
    /\ sidState[sid] = "open"
    /\ LET r == ws_send_message(sid, data, Len(tasks) + 1, handler, persist, emit)
       IN /\ tasks' = Append(tasks, r.task)
          /\ messages' = r.messages
          /\ inbox' = r.inbox
    /\ UNCHANGED <<sidState, session, active_connections, rvars, regTrace, cvars, mvars, dvars, hvars>>

\* send_message called for a sid whose session holds no user_id (lines
\* 100-103): a connection the connect handler has not accepted.
WsSendUnauthenticated(limit, sid, data, handler, persist, emit) ==
    /\ Len(tasks) < limit
    /\ session[sid] = None
    /\ LET r == ws_send_message(sid, data, Len(tasks) + 1, handler, persist, emit)
       IN /\ tasks' = Append(tasks, r.task)
          /\ messages' = r.messages
          /\ inbox' = r.inbox
    /\ UNCHANGED <<sidState, session, active_connections, rvars, regTrace, cvars, mvars, dvars, hvars>>

\* A handler or broadcast_to_user suspended in an emit loop resumes.
LoopStep(t, emit) ==
    /\ tasks[t].pc = "loop"
    /\ LET r == RunLoop(tasks[t], t, inbox, sidState, active_connections, emit)
       IN /\ tasks' = [tasks EXCEPT ![t] = r.task]
          /\ inbox' = r.inbox
    /\ UNCHANGED <<sidState, session, messages, active_connections, rvars, regTrace, cvars, mvars, dvars, hvars>>

\* The await of ai_manager.get_response ends (lines 222-245).  A response
\* is emitted over the same `sessions' object; it is not stored.  An
\* exception would reach the handler's except clause (lines 251-253).
AiReturn(t, outcome, emit) ==
    /\ tasks[t].pc = "ai_wait"
    /\ LET rec == [tasks[t] EXCEPT !.provider = outcome]
           ai_response == get_response(outcome)
           ai_message == [event |-> "message", id |-> 0, member_id |-> rec.ai,
                          channel_id |-> None, content |-> ai_response,
                          is_system |-> FALSE]
           r == IF ai_response = Exception
                THEN [task |-> Raise(rec), inbox |-> inbox]
                ELSE IF ai_response = <<>>
                THEN [task |-> Done(rec, "ok"), inbox |-> inbox]
                ELSE RunLoop([rec EXCEPT !.pc = "loop", !.phase = "ai",
                                         !.ev = ai_message, !.ai = None,
                                         !.it = ReIt(rec.it, active_connections),
                                         !.bstart = SetOf(rec.it, active_connections),
                                         !.tried = {}, !.dead = {}, !.failed = FALSE],
                             t, inbox, sidState, active_connections, emit)
       IN /\ tasks' = [tasks EXCEPT ![t] = r.task]
          /\ inbox' = r.inbox
    /\ UNCHANGED <<sidState, session, messages, active_connections, rvars, regTrace, cvars, mvars, dvars, hvars>>

(***************************************************************************)
(* HTTP send_message (messages.py lines 110-219) and its background task.  *)
(***************************************************************************)
http_send_message(current_user, message, tid, persist) ==
    LET base == [NewTask("http", current_user, "") EXCEPT !.data = message]
        user_members == MembersOf(current_user)
        parsed == parse_proxy_tags(message.content, user_members)
        detected_member_id == parsed[1]
        stripped_content == parsed[2]
        final_member_id == IF detected_member_id # None THEN detected_member_id
                           ELSE message.member_id
        final_content == stripped_content
    IN IF final_member_id # None /\ ~MemberOwned(final_member_id, current_user)
       THEN [task |-> Done(base, "404 Member not found"), messages |-> messages]
       ELSE IF message.channel_id # None /\ ~ChannelOwned(message.channel_id, current_user)
       THEN [task |-> Done(base, "404 Channel not found"), messages |-> messages]
       ELSE IF persist = "raise"
       THEN [task |-> PersistFailed(base), messages |-> messages]
       ELSE LET id == Len(messages) + 1
                new_message ==
                    [id |-> id, task |-> tid, user |-> current_user,
                     member_id |-> final_member_id, channel_id |-> message.channel_id,
                     content |-> final_content, raw |-> message.content,
                     given |-> message.member_id]
                ws_payload ==
                    [event |-> "message", id |-> id, member_id |-> final_member_id,
                     channel_id |-> message.channel_id, content |-> final_content,
                     is_system |-> FALSE]
            IN [task |-> [base EXCEPT !.pc = "bg", !.msg = id, !.ev = ws_payload,
                                      !.persisted = "ok"],
                messages |-> Append(messages, new_message)]

HttpSendMessage(limit, current_user, message, persist) ==
    /\ Len(tasks) < limit
    /\ LET r == http_send_message(current_user, message, Len(tasks) + 1, persist)
       IN /\ tasks' = Append(tasks, r.task)
          /\ messages' = r.messages
    /\ UNCHANGED <<sidState, session, inbox, active_connections, rvars, regTrace, cvars, mvars, dvars, hvars>>

\* The background task starts: broadcast_to_all("message", ws_payload).
BroadcastToAllStart(t, emit) ==
    /\ tasks[t].pc = "bg"
    /\ LET rec == [tasks[t] EXCEPT !.pc = "all_loop", !.phase = "all",
                                   !.dit = NewDit(active_connections),
                                   !.bstart = AllAttached(active_connections)]
           r == RunAllLoop(rec, t, inbox, sidState, active_connections, emit)
       IN /\ tasks' = [tasks EXCEPT ![t] = r.task]
          /\ inbox' = r.inbox
    /\ UNCHANGED <<sidState, session, messages, active_connections, rvars, regTrace, cvars, mvars, dvars, hvars>>

\* broadcast_to_all resumes after an emit.
BroadcastToAllStep(t, emit) ==
    /\ tasks[t].pc = "all_loop"
    /\ LET r == RunAllLoop(tasks[t], t, inbox, sidState, active_connections, emit)
       IN /\ tasks' = [tasks EXCEPT ![t] = r.task]
          /\ inbox' = r.inbox
    /\ UNCHANGED <<sidState, session, messages, active_connections, rvars, regTrace, cvars, mvars, dvars, hvars>>

\* broadcast_to_user(user_id, event, data) as the channel and auth routers
\* call it (websocket.py lines 275-280), up to its first emit.
BroadcastToUser(limit, user_id, emit) ==
    /\ Len(tasks) < limit
    /\ LET data == [NoEv EXCEPT !.event = "channel_created"]
           r == RunLoop(BeginLoop(NewTask("user", user_id, ""), "evt", data,
                                  active_connections),
                        Len(tasks) + 1, inbox, sidState, active_connections, emit)
       IN /\ tasks' = Append(tasks, r.task)
          /\ inbox' = r.inbox
    /\ UNCHANGED <<sidState, session, messages, active_connections, rvars, regTrace, cvars, mvars, dvars, hvars>>

Init ==
    /\ RegistryIdle
    /\ RouterIdle
    /\ MentionIdle
    /\ DetectorIdle
    /\ HistoryIdle
    /\ CommandsIdle
    /\ rText = <<>>
    /\ rMembers = <<>>
    /\ rWeb = <<None, <<>>>>
    /\ rDesk = <<None, <<>>>>
    /\ rPc = {}

(***************************************************************************)
(* Spec: concurrent handlers.  Up to MaxEvents inbound events and          *)
(* broadcasts run interleaved with each other and with connects and        *)
(* disconnects; the events are plain messages to two channels.             *)
(***************************************************************************)
PlainWsInputs == {data \in WsInputs : data.content = <<"a">> /\ data.member_id = 1}

PlainHttpInputs ==
    {message \in HttpInputs : message.content = <<"a">> /\ message.member_id = None
                               /\ message.channel_id \in {1, 2}}

Next ==
    \/ \E sid \in Sids, outcome \in {"accept", "reject"} : Connect(sid, outcome)
    \/ \E sid \in Sids : Disconnect(sid)
    \/ \E sid \in Sids, data \in PlainWsInputs, persist, emit \in Outcomes :
          WsSendMessage(MaxEvents, sid, data, "ok", persist, emit)
    \/ \E t \in DOMAIN tasks, emit \in Outcomes : LoopStep(t, emit)
    \/ \E current_user \in Users, message \in PlainHttpInputs, persist \in Outcomes :
          HttpSendMessage(MaxEvents, current_user, message, persist)
    \/ \E t \in DOMAIN tasks, emit \in Outcomes : BroadcastToAllStart(t, emit)
    \/ \E t \in DOMAIN tasks, emit \in Outcomes : BroadcastToAllStep(t, emit)
    \/ \E user_id \in Users, emit \in Outcomes : BroadcastToUser(MaxEvents, user_id, emit)

Spec == Init /\ [][Next]_vars

(***************************************************************************)
(* SpecIngest: the path of one inbound event at a time, over every kind of *)
(* payload, every connect outcome and every provider outcome.              *)
(***************************************************************************)
IngestNext ==
    \/ \E sid \in Sids, outcome \in {"accept", "reject", "emit_raises"} :
          Connect(sid, outcome)
    \/ \E sid \in Sids : Disconnect(sid)
    \/ \E sid \in Sids, data \in WsInputs, handler, persist, emit \in Outcomes :
          WsSendMessage(MaxIngest, sid, data, handler, persist, emit)
    \/ \E t \in DOMAIN tasks, emit \in Outcomes : LoopStep(t, emit)
    \/ \E t \in DOMAIN tasks, outcome \in AiOutcomes, emit \in Outcomes :
          AiReturn(t, outcome, emit)
    \/ \E current_user \in Users, message \in HttpInputs, persist \in Outcomes :
          HttpSendMessage(MaxIngest, current_user, message, persist)
    \/ \E t \in DOMAIN tasks, emit \in Outcomes : BroadcastToAllStart(t, emit)
    \/ \E t \in DOMAIN tasks, emit \in Outcomes : BroadcastToAllStep(t, emit)

SpecIngest == Init /\ [][IngestNext]_vars

(***************************************************************************)
(* SpecReply: the whole course of an inbound event, from its arrival to    *)
(* the automated reply, interleaved with connects and disconnects.  The    *)
(* events are a plain message and a message that addresses the AI          *)
(* character, over both ingestion paths.                                   *)
(***************************************************************************)
ReplyWsInputs ==
    {data \in WsInputs : /\ data.content \in {<<"a">>, <<"@", "R">>}
                         /\ data.member_id = 1 /\ data.channel_id = 1}

ReplyHttpInputs ==
    {message \in HttpInputs : /\ message.content = <<"a">>
                              /\ message.member_id = None /\ message.channel_id = 1}

ReplyNext ==
    \/ \E sid \in Sids : Connect(sid, "accept")
    \/ \E sid \in Sids : Disconnect(sid)
    \/ \E sid \in Sids, data \in ReplyWsInputs, persist, emit \in Outcomes :
          WsSendMessage(MaxReply, sid, data, "ok", persist, emit)
    \/ \E t \in DOMAIN tasks, emit \in Outcomes : LoopStep(t, emit)
    \/ \E t \in DOMAIN tasks, outcome \in AiOutcomes, emit \in Outcomes :
          AiReturn(t, outcome, emit)
    \/ \E message \in ReplyHttpInputs, persist \in Outcomes :
          HttpSendMessage(MaxReply, 1, message, persist)
    \/ \E t \in DOMAIN tasks, emit \in Outcomes : BroadcastToAllStart(t, emit)
    \/ \E t \in DOMAIN tasks, emit \in Outcomes : BroadcastToAllStep(t, emit)

SpecReply == Init /\ [][ReplyNext]_vars

\* The awaited provider call ends: every provider's HTTP client is created
\* with a timeout (ai_characters.py, httpx.AsyncClient(timeout=30.0), 60.0
\* for Ollama), so that the suspended handler is resumed.
ProviderEnds ==
    \E t \in 1..MaxReply :
        /\ t \in DOMAIN tasks
        /\ \E outcome \in AiOutcomes, emit \in Outcomes : AiReturn(t, outcome, emit)

SpecReplyLive == SpecReply /\ WF_vars(ProviderEnds)

(***************************************************************************)
(* SpecAsync: inbound events of the Socket.IO path that overlap.  The      *)
(* server starts every event handler as a task of its own (AsyncServer's   *)
(* default, websocket.py lines 13-18), so that up to MaxAsync handlers are *)
(* in progress while a provider call may stay unanswered for as long as it *)
(* likes.                                                                  *)
(***************************************************************************)
AsyncNext ==
    \/ \E sid \in Sids : Connect(sid, "accept")
    \/ \E sid \in Sids : Disconnect(sid)
    \/ \E sid \in Sids, data \in ReplyWsInputs, persist \in Outcomes :
          WsSendMessage(MaxAsync, sid, data, "ok", persist, "ok")
    \/ \E t \in DOMAIN tasks : LoopStep(t, "ok")
    \/ \E t \in DOMAIN tasks, outcome \in {"text", "error"} : AiReturn(t, outcome, "ok")

SpecAsync == Init /\ [][AsyncNext]_vars

(***************************************************************************)
(* SpecLocal: commands, rejected events and failing events of the          *)
(* Socket.IO path while sessions of two accounts are attached.             *)
(***************************************************************************)
LocalWsInputs ==
    {data \in WsInputs :
        /\ data.channel_id = 1
        /\ data.content \in {<<"a">>, <<"/", "h">>, <<>>}}

LocalNext ==
    \/ \E sid \in Sids : Connect(sid, "accept")
    \/ \E sid \in Sids : Disconnect(sid)
    \/ \E sid \in Sids, data \in LocalWsInputs, handler, persist, emit \in Outcomes :
          WsSendMessage(MaxLocal, sid, data, handler, persist, emit)
    \/ \E sid \in Sids, data \in LocalWsInputs, handler, persist, emit \in Outcomes :
          WsSendUnauthenticated(MaxLocal, sid, data, handler, persist, emit)
    \/ \E t \in DOMAIN tasks, emit \in Outcomes : LoopStep(t, emit)

SpecLocal == Init /\ [][LocalNext]_vars

(***************************************************************************)
(* SpecCommands: the import of commands.py, registration by registration,  *)
(* and then any call of execute or get_help_text.                          *)
(***************************************************************************)
CommandsInit ==
    /\ commands = <<>>
    /\ cmdPc = 0
    /\ cmdOut = NoOut
    /\ RegistryIdle
    /\ RouterIdle
    /\ MentionIdle
    /\ DetectorIdle
    /\ HistoryIdle
    /\ rText = <<>>
    /\ rMembers = <<>>
    /\ rWeb = <<None, <<>>>>
    /\ rDesk = <<None, <<>>>>
    /\ rPc = {}

\* The texts execute is called with: every key of the registry as typed, in
\* upper case and with an argument, and texts that name no command.
Typed(key) ==
    {<<"/">> \o key, <<"/">> \o upper(key), <<"/">> \o key \o <<" ", "a">>}

ExecuteInputs ==
    UNION {Typed(key) : key \in CommandNames}
    \cup {<<>>, <<"a">>, <<"/">>, <<"/", " ">>, <<"/", "z", "z">>, <<"/", " ", "m">>}

\* The next @registry.register decorator of the module runs.
Register ==
    /\ cmdPc < Len(Registrations)
    /\ commands' = register(commands, cmdPc + 1)
    /\ cmdPc' = cmdPc + 1
    /\ UNCHANGED <<cmdOut, rvars, regvars, routervars, mvars, dvars, hvars>>

\* registry.execute(user_id, message, db) on the imported module.
Execute(message, handler) ==
    /\ cmdPc = Len(Registrations)
    /\ cmdOut' = [op |-> "execute", message |-> message, handler |-> handler,
                  command |-> find_command(commands, message),
                  result |-> execute(commands, message, handler),
                  help |-> <<>>]
    /\ UNCHANGED <<commands, cmdPc, rvars, regvars, routervars, mvars, dvars, hvars>>

\* registry.get_help_text() on the imported module, as cmd_help calls it.
GetHelpText ==
    /\ cmdPc = Len(Registrations)
    /\ cmdOut' = [NoOut EXCEPT !.op = "help", !.help = get_help_text(commands)]
    /\ UNCHANGED <<commands, cmdPc, rvars, regvars, routervars, mvars, dvars, hvars>>

CommandsNext ==
    \/ Register
    \/ \E message \in ExecuteInputs, handler \in Outcomes : Execute(message, handler)
    \/ GetHelpText

SpecCommands == CommandsInit /\ [][CommandsNext]_vars

(***************************************************************************)
(* SpecMention: the mention scan of send_message (websocket.py lines       *)
(* 206-213) on any content up to MaxMention characters and any list of AI  *)
(* characters of the account.                                              *)
(***************************************************************************)
MentionChars == {"@", "R", "r", ":", " ", "a"}

MentionTexts == UNION {[1..k -> MentionChars] : k \in 0..MaxMention}

\* The AI characters an account may have: R and a, in either query order.
AiR == [id |-> 2, name |-> <<"R">>]

AiA == [id |-> 4, name |-> <<"a">>]

AiLists == {<<>>, <<AiR>>, <<AiA>>, <<AiR, AiA>>, <<AiA, AiR>>}

MentionInit ==
    /\ mContent \in MentionTexts
    /\ mAis \in AiLists
    /\ mOut = NoScan
    /\ RegistryIdle
    /\ CommandsIdle
    /\ RouterIdle
    /\ DetectorIdle
    /\ HistoryIdle
    /\ rText = <<>>
    /\ rMembers = <<>>
    /\ rWeb = <<None, <<>>>>
    /\ rDesk = <<None, <<>>>>
    /\ rPc = {}

\* The loop of lines 206-213 runs on the content.
ScanMentions ==
    /\ ~mOut.done
    /\ mOut' = [done |-> TRUE, ai |-> MentionedAi(mContent, mAis, 1)]
    /\ UNCHANGED <<mContent, mAis, rvars, regvars, routervars, cvars, dvars, hvars>>

MentionNext == ScanMentions

SpecMention == MentionInit /\ [][MentionNext]_vars

(***************************************************************************)
(* SpecDetector: the desktop window.  MainWindow builds its ProxyDetector  *)
(* once (main_window.py line 42); the member dialog and the PluralKit sync *)
(* then write the members table, and every change of the message input and *)
(* every send call detect_proxy.  Member ids are the table's row ids.      *)
(***************************************************************************)
\* Tag lists of the members the database holds when the window opens: the
\* PluralKit sync stores a member's whole tag list.
StoredTagLists == {<<>>, <<PrefixA>>, <<Brackets>>, <<Brackets, PrefixA>>}

\* What the member dialog saves: at most one entry, built from its prefix
\* and suffix fields (member_manager.py lines 227-231).
DialogTagLists == {<<>>, <<PrefixA>>, <<Brackets>>, <<SuffixBracket>>}

StoredMemberLists ==
    UNION { { [i \in 1..n |-> [id |-> i, proxy_tags |-> f[i]]] : f \in [1..n -> StoredTagLists] }
            : n \in 0..MaxMembers }

\* The id of the next inserted row.
NextMemberId(members) ==
    IF members = <<>> THEN 1 ELSE members[Len(members)].id + 1

DetectorInit ==
    /\ dMembers \in StoredMemberLists
    /\ dPatterns = _build_proxy_patterns(dMembers, 1)
    /\ dOut = NoDetect
    /\ HistoryIdle
    /\ RegistryIdle
    /\ CommandsIdle
    /\ RouterIdle
    /\ MentionIdle
    /\ rText = <<>>
    /\ rMembers = <<>>
    /\ rWeb = <<None, <<>>>>
    /\ rDesk = <<None, <<>>>>
    /\ rPc = {}

\* _show_new_member_dialog: the dialog adds a member; the window reloads its
\* member list (main_window.py lines 380-385).
CreateMember(tags) ==
    /\ NextMemberId(dMembers) <= MaxMembers
    /\ dMembers' = Append(dMembers, [id |-> NextMemberId(dMembers), proxy_tags |-> tags])
    /\ UNCHANGED <<dPatterns, dOut, rvars, regvars, routervars, cvars, mvars, hvars>>

\* _show_member_manager, Save: the dialog updates the member; the window
\* reloads its member list and the chat display (lines 387-393).
UpdateMember(i, tags) ==
    /\ i \in DOMAIN dMembers
    /\ dMembers[i].proxy_tags # tags
    /\ dMembers' = [dMembers EXCEPT ![i].proxy_tags = tags]
    /\ UNCHANGED <<dPatterns, dOut, rvars, regvars, routervars, cvars, mvars, hvars>>

\* _show_member_manager, Delete.
DeleteMember(i) ==
    /\ i \in DOMAIN dMembers
    /\ dMembers' = [k \in 1..(Len(dMembers) - 1) |->
                        IF k < i THEN dMembers[k] ELSE dMembers[k + 1]]
    /\ UNCHANGED <<dPatterns, dOut, rvars, regvars, routervars, cvars, mvars, hvars>>

\* _on_message_text_changed and _send_message: detect_proxy(text) for a
\* non-empty text (lines 328-333 and 352-358).
DetectProxy(text) ==
    /\ text # <<>>
    /\ dOut' = [text |-> text, result |-> detect_proxy(text, dPatterns, 1)]
    /\ UNCHANGED <<dMembers, dPatterns, rvars, regvars, routervars, cvars, mvars, hvars>>

DetectorNext ==
    \/ \E tags \in DialogTagLists : CreateMember(tags)
    \/ \E i \in 1..MaxMembers, tags \in DialogTagLists : UpdateMember(i, tags)
    \/ \E i \in 1..MaxMembers : DeleteMember(i)
    \/ \E text \in TextsUpTo(MaxLen) : DetectProxy(text)

SpecDetector == DetectorInit /\ [][DetectorNext]_vars

(***************************************************************************)
(* SpecHistory: the conversation history send_message fetches for the      *)
(* provider (websocket.py lines 216-227) and what the providers take of it *)
(* (ai_characters.py).  The table is built row by row; timestamps are the  *)
(* commit times, so they never decrease, and two rows may share one.       *)
(***************************************************************************)
\* .limit(10) of the query.
HistoryLimit == 10

\* conversation_history[-5:] of the four providers.
ProviderWindow == 5

\* max_messages of build_conversation_context.
ContextWindow == 10

Reverse(s) == [k \in 1..Len(s) |-> s[Len(s) + 1 - k]]

\* A history handed over in the order the query returned it.
conversation_history_Unreversed(recent_messages) == recent_messages

\* list(reversed(recent_messages)), line 225.
conversation_history(recent_messages) == Reverse(recent_messages)

\* The ids (positions) of the rows whose member belongs to the account, in
\* commit order: .join(Member).filter(Member.user_id == user_id).
RECURSIVE RowsOf(_, _, _)
RowsOf(rows, user_id, i) ==
    IF i > Len(rows) THEN <<>>
    ELSE IF rows[i].user = user_id THEN <<i>> \o RowsOf(rows, user_id, i + 1)
    ELSE RowsOf(rows, user_id, i + 1)

\* Positions k of a sequence of row ids whose rows k and k + 1 share a
\* timestamp: ORDER BY leaves their order to the database.
TiePairs(ids, rows) ==
    {k \in 1..(Len(ids) - 1) : rows[ids[k]].ts = rows[ids[k + 1]].ts}

Swapped(ids, S) ==
    [k \in 1..Len(ids) |->
        IF k \in S THEN ids[k + 1] ELSE IF (k - 1) \in S THEN ids[k - 1] ELSE ids[k]]

\* .order_by(Message.timestamp.desc()).limit(10).all(): the results the
\* database may return.
RecentMessages(rows, user_id) ==
    LET desc == Reverse(RowsOf(rows, user_id, 1))
    IN {PySlice(Swapped(desc, S), 0, HistoryLimit) : S \in SUBSET TiePairs(desc, rows)}

\* conversation_history[-5:] (Gemini, OpenAI, Claude, Ollama).
provider_history(conversation) == PySlice(conversation, -ProviderWindow, Len(conversation))

\* conversation_history[-max_messages:] of build_conversation_context.
build_conversation_context(conversation) ==
    PySlice(conversation, -ContextWindow, Len(conversation))

HistoryInit ==
    /\ HistoryIdle
    /\ DetectorIdle
    /\ RegistryIdle
    /\ CommandsIdle
    /\ RouterIdle
    /\ MentionIdle
    /\ rText = <<>>
    /\ rMembers = <<>>
    /\ rWeb = <<None, <<>>>>
    /\ rDesk = <<None, <<>>>>
    /\ rPc = {}

\* A message is committed for a member of account user_id; tie says that
\* its timestamp is that of the row before.
AddRow(user_id, tie) ==
    /\ ~hOut.done
    /\ Len(hRows) < MaxHistory
    /\ user_id # 1 => Cardinality({i \in DOMAIN hRows : hRows[i].user # 1}) < MaxOther
    /\ tie => /\ hRows # <<>>
              /\ Cardinality({i \in 2..Len(hRows) : hRows[i].ts = hRows[i - 1].ts}) < MaxTies
              /\ Len(hRows) > 1 => hRows[Len(hRows)].ts # hRows[Len(hRows) - 1].ts
    /\ LET last == IF hRows = <<>> THEN 0 ELSE hRows[Len(hRows)].ts
       IN hRows' = Append(hRows, [user |-> user_id, ts |-> IF tie THEN last ELSE last + 1])
    /\ UNCHANGED <<hOut, rvars, regvars, routervars, cvars, mvars, dvars>>

\* Lines 216-227 for account 1, and the slices of the providers.
FetchHistory ==
    /\ \E recent_messages \in RecentMessages(hRows, 1) :
          LET history == conversation_history(recent_messages)
          IN hOut' = [done |-> TRUE, n |-> Len(hRows), history |-> history,
                      used |-> provider_history(history),
                      context |-> build_conversation_context(history)]
    /\ UNCHANGED <<hRows, rvars, regvars, routervars, cvars, mvars, dvars>>

HistoryNext ==
    \/ \E user_id \in Users, tie \in BOOLEAN : AddRow(user_id, tie)
    \/ FetchHistory

SpecHistory == HistoryInit /\ [][HistoryNext]_vars


(***************************************************************************)
(* Properties of the matchers.                                             *)
(***************************************************************************)
\* The match rule of one tag entry as the design states it: the text left
\* between prefix and suffix, trimmed; the entry matches when the text
\* starts with the prefix, ends with the suffix, the two do not overlap and
\* the trimmed rest is not empty.
RuleContent(text, tag) ==
    strip(SubSeq(text, Len(tag.prefix) + 1, Len(text) - Len(tag.suffix)))

RuleMatches(text, tag) ==
    /\ tag.prefix # <<>> \/ tag.suffix # <<>>
    /\ Len(tag.prefix) + Len(tag.suffix) <= Len(text)
    /\ startswith(text, tag.prefix)
    /\ endswith(text, tag.suffix)
    /\ RuleContent(text, tag) # <<>>

\* <<i, j>>: entry j of member i matches the text.
Candidates(text, members) ==
    UNION { { <<i, j>> : j \in {k \in 1..Len(members[i].proxy_tags) :
                                    RuleMatches(text, members[i].proxy_tags[k])} }
            : i \in 1..Len(members) }

Before(c, d) == c[1] < d[1] \/ (c[1] = d[1] /\ c[2] <= d[2])

FirstCandidate(text, members) ==
    CHOOSE c \in Candidates(text, members) :
        \A d \in Candidates(text, members) : Before(c, d)

\* C7: parse_proxy_tags returns the first matching (persona, tag entry)
\* combination in persona list order and then tag list order, whatever the
\* later candidates are, and returns a persona only when some entry matches.
C7_FirstMatchWins ==
    "web" \in rPc =>
        LET cands == Candidates(rText, rMembers)
        IN /\ rWeb[1] # None => cands # {}
           /\ cands # {} =>
                LET c == FirstCandidate(rText, rMembers)
                IN rWeb = <<rMembers[c[1]].id,
                           RuleContent(rText, rMembers[c[1]].proxy_tags[c[2]])>>

\* C7 witness: two personas both match, with different stripped content,
\* and the one registered first was returned.
C7_Witness ==
    /\ "web" \in rPc
    /\ \E c, d \in Candidates(rText, rMembers) :
          /\ c[1] = 1 /\ d[1] = 2
          /\ RuleContent(rText, rMembers[1].proxy_tags[c[2]])
               # RuleContent(rText, rMembers[2].proxy_tags[d[2]])
    /\ rWeb[1] = rMembers[1].id

\* C8: neither matcher returns a persona together with empty content (an
\* entry whose trimmed content is empty counts as no match).
C8_NoPersonaWithEmptyContent ==
    /\ "web" \in rPc /\ rWeb[1] # None => rWeb[2] # <<>>
    /\ "desktop" \in rPc /\ rDesk[1] # None => rDesk[2] # <<>>

\* C10: when no entry of any persona matches, parse_proxy_tags returns
\* (None, text) with the text exactly as given, and resolving that returned
\* content again gives the same pair.
C10_NoMatchUnchanged ==
    "web" \in rPc /\ Candidates(rText, rMembers) = {} =>
        /\ rWeb = <<None, rText>>
        /\ parse_proxy_tags(rWeb[2], rMembers) = rWeb

\* C10 witness: a text with leading or trailing whitespace that has a tag
\* entry whose affixes fit but whose content is empty came back untouched.
C10_Witness ==
    /\ "web" \in rPc
    /\ Candidates(rText, rMembers) = {}
    /\ strip(rText) # rText
    /\ \E i \in 1..Len(rMembers) : \E j \in 1..Len(rMembers[i].proxy_tags) :
           startswith(rText, rMembers[i].proxy_tags[j].prefix)
    /\ rWeb = <<None, rText>>


(***************************************************************************)
(* Properties of the router.                                               *)
(***************************************************************************)
\* An inbox entry that is the broadcast of a persisted chat message.
IsChatEvent(e) == e.event = "message" /\ e.phase \in {"msg", "all"}

\* Number of entries of inbox[sid] emitted by task t in loop `phase'.
Copies(sid, t, phase) ==
    Cardinality({i \in DOMAIN inbox[sid] :
                    inbox[sid][i].task = t /\ inbox[sid][i].phase = phase})

\* C1: messages of one channel are stored, and reach every session, in the
\* order the router began processing them (tasks are kept in that order).
C1_ChannelOrder ==
    /\ \A i, j \in DOMAIN messages :
          i < j /\ messages[i].channel_id = messages[j].channel_id
             => messages[i].task < messages[j].task
    /\ \A sid \in Sids : \A i, j \in DOMAIN inbox[sid] :
          /\ i < j
          /\ IsChatEvent(inbox[sid][i]) /\ IsChatEvent(inbox[sid][j])
          /\ inbox[sid][i].channel_id = inbox[sid][j].channel_id
          => inbox[sid][i].task < inbox[sid][j].task

\* C3: when a broadcast to an account has ended, every session that was
\* attached to the account when it began, is still connected, and whose own
\* delivery did not fail holds exactly one copy of the event.
C3_ExactlyOneCopy ==
    \A t \in DOMAIN tasks :
        tasks[t].pc = "done" /\ tasks[t].phase \in {"msg", "evt"} =>
            \A sid \in tasks[t].bstart \ tasks[t].dead :
                sidState[sid] = "open" => Copies(sid, t, tasks[t].phase) = 1

\* C4: when an emit of a broadcast raised, emit was still called for every
\* handle of that broadcast and the exception did not reach the caller.
C4_FailureIsolated ==
    \A t \in DOMAIN tasks :
        tasks[t].failed =>
            /\ tasks[t].bstart \subseteq tasks[t].tried
            /\ tasks[t].result # "raised"

C6_ResolvedBeforePersist ==
    /\ \A i \in DOMAIN messages :
          LET m == messages[i]
              r == parse_proxy_tags(m.raw, MembersOf(m.user))
          IN r[1] # None => m.member_id = r[1] /\ m.content = r[2]
    /\ \A sid \in Sids : \A i \in DOMAIN inbox[sid] :
          LET e == inbox[sid][i]
          IN IsChatEvent(e) =>
                /\ e.member_id = messages[e.id].member_id
                /\ e.content = messages[e.id].content

\* C9: every stored message has non-empty content.
C9_NonEmptyContent ==
    \A i \in DOMAIN messages : messages[i].content # <<>>

(***************************************************************************)
(* Properties of validation, persistence failure and attribution.          *)
(***************************************************************************)
\* The chat events task t caused in the inboxes.
EventsOf(t) ==
    {e \in UNION {{inbox[sid][i] : i \in DOMAIN inbox[sid]} : sid \in Sids} :
        e.task = t /\ e.event = "message"}

\* The stored messages task t created.
StoredBy(t) == {i \in DOMAIN messages : messages[i].task = t}

ChannelKnown(channel_id) == \E i \in DOMAIN ChannelTable : ChannelTable[i].id = channel_id

\* The inbound payload of task t is regular message text.
RegularText(t) ==
    /\ tasks[t].kind \in {"ws", "http"}
    /\ tasks[t].data.content # <<>>
    /\ ~startswith(tasks[t].data.content, <<"/">>)

\* The persona a proxy tag of the payload of task t resolves to, or None.
TagPersona(t) ==
    parse_proxy_tags(tasks[t].data.content, MembersOf(tasks[t].user))[1]

\* C11: the persona stored as sender belongs to the sending account; it is
\* the persona a proxy tag resolves to when one matches, and the explicitly
\* given persona only when none matches.
C11_SenderOwnedTagFirst ==
    \A i \in DOMAIN messages :
        LET m == messages[i]
            r == parse_proxy_tags(m.raw, MembersOf(m.user))
        IN /\ m.member_id # None => MemberOwned(m.member_id, m.user)
           /\ r[1] # None => m.member_id = r[1]
           /\ r[1] = None => m.member_id = m.given

\* C12: an event with an unknown channel id, or with a persona the calling
\* account does not own, stores no message and reaches no session.
C12_InvalidRejected ==
    \A t \in DOMAIN tasks :
        LET data == tasks[t].data
            bad_channel == data.channel_id # None /\ ~ChannelKnown(data.channel_id)
            bad_member == /\ data.member_id # None
                          /\ ~MemberOwned(data.member_id, tasks[t].user)
                          /\ TagPersona(t) = None
        IN RegularText(t) /\ (bad_channel \/ bad_member) =>
              StoredBy(t) = {} /\ EventsOf(t) = {}

\* C13: when persisting fails the event is over: nothing is stored, no
\* session receives a 'message' event for it, no responder is awaited, and
\* the handler ends with the error for its caller.
C13_PersistFailureAborts ==
    \A t \in DOMAIN tasks :
        tasks[t].persisted = "failed" =>
            /\ StoredBy(t) = {}
            /\ EventsOf(t) = {}
            /\ tasks[t].pc = "done" /\ tasks[t].ai = None
            /\ tasks[t].result \in {"error", "raised"}

\* A message addressing the AI character fails to persist while a session of
\* the account is attached.
C13_Witness ==
    \E t \in DOMAIN tasks :
        /\ tasks[t].persisted = "failed"
        /\ tasks[t].kind = "ws"
        /\ MentionedAi(tasks[t].data.content, AiCharacters(tasks[t].user), 1) # None
        /\ \E sid \in get_user_sessions(active_connections, tasks[t].user) :
              sidState[sid] = "open"

\* C14: a regular event that names no persona and matches no proxy tag is
\* stored under the account itself with its content unchanged, and every
\* event that broadcasts it carries that content.
C14_AccountAttributed ==
    \A t \in DOMAIN tasks :
        LET data == tasks[t].data
        IN /\ RegularText(t)
           /\ data.member_id = None /\ TagPersona(t) = None
           /\ data.channel_id # None => ChannelOwned(data.channel_id, tasks[t].user)
           /\ tasks[t].persisted # "failed"
           => /\ \E i \in StoredBy(t) :
                    /\ messages[i].member_id = None
                    /\ messages[i].user = tasks[t].user
                    /\ messages[i].content = data.content
              /\ \A e \in EventsOf(t) : e.member_id = None /\ e.content = data.content

\* C17: an inbound text for which execute returns None is handled as a
\* regular message: with a persona of the account and a working store it is
\* persisted, and the handler does not end as a handled command.
C17_NoneFallsThrough ==
    \A t \in DOMAIN tasks :
        LET data == tasks[t].data
        IN /\ tasks[t].kind = "ws" /\ tasks[t].user # None
           /\ data.content # <<>>
           /\ execute(commands, data.content, "ok") = <<>>
           /\ data.member_id # None /\ MemberOwned(data.member_id, tasks[t].user)
           /\ tasks[t].persisted # "failed"
           => /\ StoredBy(t) # {}
              /\ tasks[t].result # "ok is_command"

\* C19: a stored message that addresses an AI character is followed by one
\* message of that character: the handler that ended without error has
\* broadcast the follow-up, once per session at most.
C19_ExactlyOneFollowUp ==
    \A t \in DOMAIN tasks :
        /\ tasks[t].kind = "ws" /\ tasks[t].pc = "done" /\ tasks[t].result = "ok"
        /\ tasks[t].msg # 0
        /\ MentionedAi(messages[tasks[t].msg].content, AiCharacters(tasks[t].user), 1) # None
        => /\ tasks[t].phase = "ai"
           /\ \A sid \in Sids : Copies(sid, t, "ai") <= 1

\* C20: the response of an AI character is never scanned for mentions: once
\* a handler has begun broadcasting the response it awaits no responder
\* again, each session gets the response at most once, and one inbound
\* event stores at most one message and causes at most two events for a
\* session.
C20_NoResponseChain ==
    \A t \in DOMAIN tasks :
        /\ tasks[t].phase = "ai" =>
              tasks[t].pc \in {"loop", "done"} /\ tasks[t].ai = None
        /\ Cardinality(StoredBy(t)) <= 1
        /\ \A sid \in Sids :
              /\ Copies(sid, t, "ai") <= 1
              /\ Cardinality({i \in DOMAIN inbox[sid] : inbox[sid][i].task = t}) <= 2

\* A handler has ended after broadcasting a response that itself addresses
\* the AI character, and a session has received it.
C20_Witness ==
    \E t \in DOMAIN tasks : \E sid \in Sids : \E i \in DOMAIN inbox[sid] :
        /\ tasks[t].pc = "done" /\ tasks[t].phase = "ai" /\ tasks[t].result = "ok"
        /\ inbox[sid][i].task = t /\ inbox[sid][i].phase = "ai"
        /\ MentionedAi(inbox[sid][i].content, AiCharacters(tasks[t].user), 1) # None

(***************************************************************************)
(* Properties of the command registry.                                     *)
(***************************************************************************)
\* The keys registration i asked for: its name and its aliases.
KeysOf(i) ==
    {Registrations[i].name}
    \cup {Registrations[i].aliases[j] : j \in DOMAIN Registrations[i].aliases}

\* C15: every command registered so far is found under its name and under
\* each of its aliases, and a text that spells one of its keys, in either
\* case, resolves to that command and to no other.
C15_NameAndAliasSameCommand ==
    /\ \A i \in 1..cmdPc : \A key \in KeysOf(i) : DictGet(commands, key) = i
    /\ cmdOut.op = "execute" =>
          \A i \in 1..cmdPc : \A key \in KeysOf(i) :
              cmdOut.message \in Typed(key) => cmdOut.command = i

\* An alias typed in upper case was looked up and found its command.
C15_Witness ==
    /\ cmdOut.op = "execute"
    /\ cmdOut.message = <<"/", "W", "H", "O", "I", "S">>
    /\ cmdOut.command # None
    /\ Registrations[cmdOut.command].name = <<"i", "n", "f", "o">>

\* C16: execute returns a text or None, never an exception: the unknown-
\* command text for a name that is not registered, the error text for a
\* handler that raised.
C16_ExecuteNeverRaises ==
    cmdOut.op = "execute" =>
        /\ cmdOut.result # Exception
        /\ LET word == TakeWord(lstrip(Tail(cmdOut.message)))
               is_command == startswith(cmdOut.message, <<"/">>) /\ word # <<>>
           IN /\ is_command /\ cmdOut.command = None => cmdOut.result = UnknownCommand
              /\ is_command /\ cmdOut.command # None /\ cmdOut.handler = "raise"
                    => cmdOut.result = CommandError

\* The handler of a registered command raised.
C16_Witness ==
    /\ cmdOut.op = "execute"
    /\ cmdOut.command # None
    /\ cmdOut.handler = "raise"
    /\ cmdOut.result = CommandError

\* C18: the listing of get_help_text has one entry for every registered
\* command and no other entry.
C18_HelpListsEachOnce ==
    cmdOut.op = "help" =>
        /\ \A i \in 1..cmdPc :
              Cardinality({j \in DOMAIN cmdOut.help : cmdOut.help[j] = i}) = 1
        /\ \A j \in DOMAIN cmdOut.help : cmdOut.help[j] \in 1..cmdPc

\* The listing was made of a registry that holds commands with aliases.
C18_Witness ==
    /\ cmdOut.op = "help"
    /\ Len(commands) > cmdPc
    /\ Len(cmdOut.help) = Len(Registrations)

(***************************************************************************)
(* Properties of the automated reply.                                      *)
(***************************************************************************)
\* C21: every response of an AI character that a session receives is a
\* stored message of that character.
C21_ResponsePersisted ==
    \A sid \in Sids : \A i \in DOMAIN inbox[sid] :
        LET e == inbox[sid][i]
        IN e.event = "message" /\ e.phase = "ai" =>
              /\ e.id \in DOMAIN messages
              /\ messages[e.id].member_id = e.member_id
              /\ messages[e.id].content = e.content

\* The rule for addressing a persona with every form matched without regard
\* to case.
Addressed(content, name) ==
    \/ Contains(lower(content), <<"@">> \o lower(name))
    \/ startswith(lower(content), lower(name) \o <<":">>)
    \/ startswith(lower(content), lower(name) \o <<" ">>)

\* C22: the scan finds a persona exactly when the content addresses one,
\* in any case, by an at-mention of its name or by beginning with the name
\* and a colon or a space.
C22_CaseInsensitiveMention ==
    mOut.done =>
        (mOut.ai # None
            <=> \E i \in DOMAIN mAis : Addressed(mContent, mAis[i].name))

C26_DropKeepsBroadcast ==
    \A t \in DOMAIN tasks :
        /\ tasks[t].kind = "ws" /\ tasks[t].pc = "done"
        /\ tasks[t].persisted = "ok" /\ ~tasks[t].failed
        /\ sidState[tasks[t].sid] = "closed"
        /\ get_user_sessions(active_connections, tasks[t].user) \subseteq tasks[t].bstart
        => /\ tasks[t].msg \in DOMAIN messages
           /\ \A sid \in tasks[t].bstart :
                 sidState[sid] = "open" => Copies(sid, t, "msg") = 1

\* The error results send_message returns for an event it rejects.
ValidationErrors ==
    {"Not authenticated", "Missing content or member_id",
     "Member not found or unauthorized"}

\* No event of a command, of a rejected event or of a failed event is in
\* the inbox of a session of another account, and the system-flagged events
\* are the replies of commands.
NoForeignReply ==
    \A sid \in Sids : \A i \in DOMAIN inbox[sid] :
        LET e == inbox[sid][i]
        IN e.task # 0 =>
              /\ e.is_system =>
                    /\ e.phase = "cmd"
                    /\ e.content \in {CommandResult, CommandError, UnknownCommand}
                    /\ session[sid] = tasks[e.task].user
              /\ tasks[e.task].result \in ValidationErrors \cup {"error"} =>
                    session[sid] = tasks[e.task].user

\* C27: the reply of a command, its result or its error text, is a
\* system-flagged event that only sessions of the account that sent the
\* command receive; a rejected event and an event whose persistence failed
\* emit nothing at all, their error being the handler's result for the
\* sending session; and whatever a handler emitted before a failure it
\* emitted to sessions of its own account.
C27_ErrorsStayLocal ==
    /\ NoForeignReply
    /\ \A t \in DOMAIN tasks :
          tasks[t].result \in ValidationErrors \/ tasks[t].persisted = "failed" =>
              /\ EventsOf(t) = {}
              /\ StoredBy(t) = {}

\* The reply of a command reached a session of its account while a session
\* of the other account was attached, and that session received nothing of
\* it.
C27_Witness ==
    \E t \in DOMAIN tasks : \E sid, other \in Sids :
        /\ tasks[t].phase = "cmd"
        /\ \E i \in DOMAIN inbox[sid] :
              inbox[sid][i].task = t /\ inbox[sid][i].is_system
        /\ session[other] \notin {None, tasks[t].user}
        /\ other \in tasks[t].bstart \cup AllAttached(active_connections)
        /\ sidState[other] = "open"
        /\ \A i \in DOMAIN inbox[other] : inbox[other][i].task # t

\* C27 as stated: a validation error, too, is delivered as a system-flagged
\* reply to the sessions of the sending account.
C27_ValidationErrorIsSystemReply ==
    /\ NoForeignReply
    /\ \A t \in DOMAIN tasks :
          /\ tasks[t].result \in ValidationErrors
          /\ sidState[tasks[t].sid] = "open"
          => \E i \in DOMAIN inbox[tasks[t].sid] :
                 inbox[tasks[t].sid][i].task = t /\ inbox[tasks[t].sid][i].is_system

\* C28: when a broadcast to all has ended and no emit of it raised, every
\* session that was attached to any account when it began and is still
\* connected holds one copy of the event, and no session holds two.
C28_BroadcastToAllOnce ==
    \A t \in DOMAIN tasks :
        tasks[t].pc = "done" /\ tasks[t].phase = "all" /\ ~tasks[t].failed =>
            /\ \A sid \in tasks[t].bstart :
                  sidState[sid] = "open" => Copies(sid, t, "all") = 1
            /\ \A sid \in Sids : Copies(sid, t, "all") <= 1

(***************************************************************************)
(* The match rule of one tag entry.                                        *)
(***************************************************************************)
\* The text between the affixes, trimmed; empty when they overlap.
Middle(text, tag) ==
    IF Len(tag.prefix) + Len(tag.suffix) > Len(text) THEN <<>>
    ELSE strip(SubSeq(text, Len(tag.prefix) + 1, Len(text) - Len(tag.suffix)))

\* The rule with a non-empty trimmed content required in each of its forms.
EntryMatches(text, tag) ==
    IF tag.prefix # <<>> /\ tag.suffix # <<>>
    THEN /\ startswith(text, tag.prefix) /\ endswith(text, tag.suffix)
         /\ Len(tag.prefix) + Len(tag.suffix) <= Len(text)
         /\ Middle(text, tag) # <<>>
    ELSE IF tag.prefix # <<>>
    THEN startswith(text, tag.prefix) /\ Middle(text, tag) # <<>>
    ELSE endswith(text, tag.suffix) /\ Middle(text, tag) # <<>>

\* The rule as stated: with one affix only, the affix alone decides.
StatedMatches(text, tag) ==
    IF tag.prefix # <<>> /\ tag.suffix # <<>>
    THEN /\ startswith(text, tag.prefix) /\ endswith(text, tag.suffix)
         /\ Len(tag.prefix) + Len(tag.suffix) <= Len(text)
         /\ Middle(text, tag) # <<>>
    ELSE IF tag.prefix # <<>>
    THEN startswith(text, tag.prefix)
    ELSE endswith(text, tag.suffix)

\* One persona with one tag entry that has an affix was resolved.
SingleEntry ==
    /\ "web" \in rPc
    /\ Len(rMembers) = 1
    /\ Len(rMembers[1].proxy_tags) = 1
    /\ rMembers[1].proxy_tags[1] # EmptyPair

\* C29: for a single tag entry, parse_proxy_tags selects the persona exactly
\* when the text starts with the prefix, ends with the suffix (an absent
\* affix asks nothing), the affixes do not overlap and the trimmed text
\* between them is non-empty; it then returns that trimmed text, and
\* otherwise no persona and the text as given.
C29_EntryRule ==
    SingleEntry =>
        LET tag == rMembers[1].proxy_tags[1]
        IN IF EntryMatches(rText, tag)
           THEN rWeb = <<rMembers[1].id, Middle(rText, tag)>>
           ELSE rWeb = <<None, rText>>

\* A text made of the prefix, a space and content was resolved by a
\* prefix-only entry to the persona and the content.
C29_Witness ==
    /\ SingleEntry
    /\ rMembers[1].proxy_tags[1] = PrefixA
    /\ rText = <<"a", " ", "]">>
    /\ rWeb = <<rMembers[1].id, <<"]">>>>

\* C29 as stated: an entry with one affix matches whenever the text starts
\* (or ends) with it.
C29_AffixAloneDecides ==
    SingleEntry =>
        LET tag == rMembers[1].proxy_tags[1]
        IN IF StatedMatches(rText, tag)
           THEN rWeb = <<rMembers[1].id, Middle(rText, tag)>>
           ELSE rWeb = <<None, rText>>

\* C30: a session receives the event of a regular message only when the
\* message is stored, with the persona and content it is stored with; a
\* handler that broadcasts has committed its message; and a handler has
\* scanned for a mention, and awaits the provider, only after emit was
\* called for every session its broadcast began with that is still
\* attached.
C30_PersistThenBroadcastThenScan ==
    /\ \A sid \in Sids : \A i \in DOMAIN inbox[sid] :
          LET e == inbox[sid][i]
          IN IsChatEvent(e) =>
                /\ e.id \in DOMAIN messages
                /\ messages[e.id].task = e.task
                /\ messages[e.id].content = e.content
                /\ tasks[e.task].persisted = "ok"
    /\ \A t \in DOMAIN tasks :
          /\ tasks[t].phase \in {"msg", "all"} \/ tasks[t].pc = "bg" =>
                tasks[t].persisted = "ok" /\ StoredBy(t) = {tasks[t].msg}
          /\ tasks[t].pc = "ai_wait" \/ tasks[t].provider # "" =>
                /\ tasks[t].persisted = "ok"
                /\ tasks[t].phase = "msg" =>
                      \A sid \in tasks[t].bstart :
                          sidState[sid] = "open" => sid \in tasks[t].tried

\* A stored message reached two sessions before its handler went on to
\* await the provider of the AI character it mentions.
C30_Witness ==
    \E t \in DOMAIN tasks :
        /\ tasks[t].pc = "ai_wait"
        /\ Cardinality(tasks[t].tried) = 2
        /\ \A sid \in tasks[t].tried :
              \E i \in DOMAIN inbox[sid] :
                  /\ IsChatEvent(inbox[sid][i])
                  /\ inbox[sid][i].id = tasks[t].msg

(***************************************************************************)
(* Properties of the desktop matcher's pattern table.                      *)
(***************************************************************************)
\* The tag entries of the members table that match the text on their own.
MatchingEntries(text, members) ==
    {<<i, j>> \in (1..Len(members)) \X (1..MaxMembers + 2) :
        /\ j \in DOMAIN members[i].proxy_tags
        /\ PatternMatch(text, members[i].proxy_tags[j].prefix,
                         members[i].proxy_tags[j].suffix)[1]}

\* C31: every call of detect_proxy answers as a pattern table built from
\* the members table of that moment would, and it finds a persona whenever
\* any tag entry of any persona matches the text.
C31_MatchersNeverStale ==
    [][dOut' # dOut =>
          /\ dOut'.result
                = detect_proxy(dOut'.text, _build_proxy_patterns(dMembers, 1), 1)
          /\ MatchingEntries(dOut'.text, dMembers) # {} => dOut'.result[1] # None]_vars

(***************************************************************************)
(* Properties of the history window.                                       *)
(***************************************************************************)
\* w holds the k most recent rows of account 1, oldest first.
MostRecent(w, k) ==
    LET mine == RowsOf(hRows, 1, 1)
        ids == {w[i] : i \in DOMAIN w}
    IN /\ Len(w) = IF Len(mine) < k THEN Len(mine) ELSE k
       /\ Cardinality(ids) = Len(w)
       /\ \A i \in DOMAIN w : hRows[w[i]].user = 1
       /\ \A i, j \in DOMAIN w : i < j => hRows[w[i]].ts <= hRows[w[j]].ts
       /\ \A m \in DOMAIN mine : mine[m] \notin ids =>
              \A i \in DOMAIN w : hRows[mine[m]].ts <= hRows[w[i]].ts

\* C32: the fetched history holds at most 10 messages, the providers use at
\* most its last 5 (build_conversation_context its last 10), and each of
\* these holds the most recent messages of the account, oldest first.
C32_HistoryBounded ==
    hOut.done =>
        /\ Len(hOut.history) <= HistoryLimit
        /\ Len(hOut.used) <= ProviderWindow
        /\ Len(hOut.context) <= ContextWindow
        /\ MostRecent(hOut.history, HistoryLimit)
        /\ MostRecent(hOut.used, ProviderWindow)
        /\ MostRecent(hOut.context, ContextWindow)

\* More than 10 messages of the account exist, two of them with one
\* timestamp, and a message of another account lies among them.
C32_Witness ==
    /\ hOut.done
    /\ Len(RowsOf(hRows, 1, 1)) > HistoryLimit
    /\ \E i \in DOMAIN hRows : hRows[i].user # 1
    /\ \E i \in 2..Len(hRows) : hRows[i].ts = hRows[i - 1].ts
    /\ Len(hOut.history) = HistoryLimit
    /\ Len(hOut.used) = ProviderWindow

\* C33: when a broadcast in which no emit raised has ended, every session
\* that was attached when it began and is still attached has its copy,
\* whatever connected or disconnected while it was suspended.
C33_RegistryChangeHarmless ==
    \A t \in DOMAIN tasks :
        /\ tasks[t].pc = "done"
        /\ tasks[t].phase \in {"msg", "evt", "all"}
        /\ ~tasks[t].failed
        => \A sid \in tasks[t].bstart :
               sidState[sid] = "open" => Copies(sid, t, tasks[t].phase) = 1

\* C34: every handle in the registry is that of an accepted connection that
\* is still open, and it is stored under the account of its token and under
\* no other.
C34_RegistryHoldsOpenHandles ==
    \A i \in DOMAIN active_connections : \A sid \in active_connections[i].sids :
        /\ sidState[sid] = "open"
        /\ active_connections[i].user_id = TokenUser[sid]

\* C35: a send_message event on a session without an account ends at once
\* with the authentication error; the step stores nothing, emits nothing
\* and leaves the registry and the sessions as they were.
C35_UnauthenticatedRejected ==
    [][\A t \in DOMAIN tasks' :
          /\ t \notin DOMAIN tasks
          /\ tasks'[t].kind = "ws"
          /\ session[tasks'[t].sid] = None
          => /\ tasks'[t].pc = "done"
             /\ tasks'[t].result = "Not authenticated"
             /\ tasks'[t].phase = "" /\ tasks'[t].persisted = "no"
             /\ UNCHANGED <<messages, inbox, active_connections, sidState, session>>]_vars

\* A command arrived on a session without an account while a session of an
\* account was attached, and was rejected.
C35_Witness ==
    \E t \in DOMAIN tasks :
        /\ tasks[t].result = "Not authenticated"
        /\ tasks[t].data.content = <<"/", "h">>
        /\ active_connections # <<>>

\* C36: for every text and every list of personas, detect_proxy and
\* parse_proxy_tags select the same persona, or none, and give the same
\* stripped content.
C36_MatchersAgree ==
    {"web", "desktop"} \subseteq rPc => rDesk = rWeb

\* C37: a call of get_user_sessions leaves the registry as it was and
\* returns the empty set for an account without entry; connect of a handle
\* that is attached to the account, and disconnect of a handle or account
\* that is not registered, leave the registry as it was.
C37_ReadsAndNoOpsChangeNothing ==
    [][regTrace' # regTrace =>
          LET call == regTrace'[Len(regTrace')]
              attached == call[2] \in get_user_sessions(active_connections, call[3])
          IN /\ call[1] = "get" =>
                   /\ active_connections' = active_connections
                   /\ ~HasKey(active_connections, call[3]) => call[4] = {}
             /\ call[1] = "connect" /\ attached =>
                   active_connections' = active_connections
             /\ call[1] = "disconnect" /\ ~attached =>
                   active_connections' = active_connections]_vars

\* An attached handle was attached again, a handle that is not registered
\* was detached, the sessions of an account without entry were read, and
\* the registry holds what the first call put there.
C37_Witness ==
    /\ regTrace = << <<"connect", "s1", 1>>, <<"connect", "s1", 1>>,
                     <<"disconnect", "s2", 1>>, <<"get", "", 2, {}>> >>
    /\ active_connections = <<[user_id |-> 1, sids |-> {"s1"}]>>

=============================================================================
